---- MODULE Spec2Model ----
(***************************************************************************)
(* State-machine model of GeopsApiService (services/geops-api.ts): the     *)
(* WebSocket lifecycle, the bounding-box subscription, the trajectory      *)
(* store and the inbound message handlers.                                 *)
(*                                                                         *)
(* Conventions                                                             *)
(*   - an optional JavaScript value is a set with at most one element:     *)
(*     None = {} stands for undefined/null, Some(v) = {v} for a value;     *)
(*   - ws, pingInterval, reconnectTimeout hold 0 for null, else an id;     *)
(*   - a line name is a sequence of one-character strings, so that         *)
(*     toUpperCase and startsWith are computed, not assumed;               *)
(*   - the Map `trajectories` is a sequence of entries with distinct ids,  *)
(*     in insertion order (the iteration order of a JavaScript Map);       *)
(*   - coordinates are integers (exact in IEEE doubles), and ratios are    *)
(*     compared by cross-multiplication.                                   *)
(***************************************************************************)
EXTENDS Integers, Sequences, FiniteSets, TLC

(* ------------------------------ bounds --------------------------------- *)
\* sockets the model lets the service create (constructor + reconnects)
MaxSockets == 3
\* frames recorded per socket
MaxSent == 4
\* largest displacement of a probe box corner in the significance-test runs
MaxDelta == 6

(* ------------------------- program constants --------------------------- *)
PING_INTERVAL == 30000
RECONNECT_DELAY == 5000
BUFFER_SIZE == 100
ZOOM_LEVEL == 9
\* BBOX_CHANGE_THRESHOLD = 0.05 as the fraction ThresholdNum / ThresholdDen
ThresholdNum == 5
ThresholdDen == 100

(* ------------------------------ values --------------------------------- *)
None == {}
Some(v) == {v}
Get(o) == CHOOSE v \in o : TRUE

Abs(n) == IF n < 0 THEN -n ELSE n
Max(a, b) == IF a >= b THEN a ELSE b

Box(l, b, r, t) == [left |-> l, bottom |-> b, right |-> r, top |-> t]

SocketIds == 1..MaxSockets

VARIABLES
    sock,              \* socket id -> readyState ("NONE" before new WebSocket)
    sent,              \* frames handed to send() of the socket this.ws was last set to
    ws,                \* this.ws
    isConnected,       \* this.isConnected
    reconnectTimeout,  \* this.reconnectTimeout
    pingInterval,      \* this.pingInterval
    pendingTimeouts,   \* timers set by setTimeout that have not fired: id -> delay
    activePings,       \* intervals set by setInterval and not cleared: id -> period
    animationFrame,    \* this.animationFrame (0 for null)
    currentMots,       \* this.currentMots
    currentBBox,       \* this.currentBBox
    longDistanceOnly,  \* this.longDistanceOnly
    trajectories,      \* this.trajectories
    onVehicleDelete,   \* this.onVehicleDelete is set
    onTrajectoryUpdate,\* this.onTrajectoryUpdate is set
    events,            \* listener invocations made by the last handler, in order
    lastBox,           \* history: the argument of updateBBox when it was the last operation
    disconnectCalled,  \* history: disconnect() has been called
    oldB, newB, changed, \* inputs and result of the significance test (SpecBBox)
    input, output,     \* argument and result of a function run on its own
                       \* (SpecName, SpecInterp, SpecInterval); None before the call
    onVehicleUpdate,   \* this.onVehicleUpdate is set
    snapshot,          \* the list handed to onVehicleUpdate by the last update pass;
                       \* None when the last operation published nothing
    deletedIds,        \* history: ids removed by a deleted_vehicles message for
                       \* which no trajectory has been accepted since (SpecSnap)
    lastCall,          \* history: the last operation and its argument
                       \* (SpecMsg, SpecFilter, SpecSub)
    lastUpdateTime,    \* this.lastUpdateTime
    isAnimating,       \* this.isAnimating
    lastFpsUpdateTime, \* this.lastFpsUpdateTime
    frameCount,        \* this.frameCount
    fpsCalculationStart, \* this.fpsCalculationStart
    onFpsUpdate,       \* this.onFpsUpdate is set
    pendingFrames,     \* ids handed out by requestAnimationFrame whose callback
                       \* has neither run nor been cancelled
    clock,             \* the timestamp of the latest frame callback
    lastPass,          \* history: timestamp and Store size of the latest update pass
    tick,              \* history: what the latest frame callback did
    lastReport,        \* history: time and number of the latest onFpsUpdate call
    passesSince,       \* history: update passes completed since that call
    host               \* the host's viewport handler: its position, its extent
                       \* and the calls it has made

connVars == <<sock, sent, ws, isConnected, reconnectTimeout, pingInterval,
              pendingTimeouts, activePings, animationFrame, disconnectCalled>>
subVars == <<currentMots, currentBBox, longDistanceOnly>>
feedVars == <<trajectories, onVehicleDelete, onTrajectoryUpdate, events, lastBox>>
testVars == <<oldB, newB, changed, input, output>>
tickVars == <<onVehicleUpdate, snapshot>>
histVars == <<deletedIds, lastCall>>
animVars == <<lastUpdateTime, isAnimating, lastFpsUpdateTime, frameCount,
              fpsCalculationStart, onFpsUpdate, clock, lastPass, tick,
              lastReport, passesSince>>
vars == <<connVars, subVars, feedVars, testVars, tickVars, histVars, animVars,
          pendingFrames, host>>

(* ---------------- hasBBoxChangedEnough (part_000:282-309) -------------- *)
\* a ratio num/den with den > 0, kept exact
Ratio(n, d) == [num |-> n, den |-> d]

\* faulty variant: a change of exactly the threshold counts as below it
BelowThresholdInclusive(r) == r.num * ThresholdDen <= ThresholdNum * r.den

\* `x < threshold` for x = r.num / r.den and threshold = 0.05
BelowThreshold(r) == r.num * ThresholdDen < ThresholdNum * r.den

WidthChange(old, new) ==
    Ratio(Abs((new.right - new.left) - (old.right - old.left)),
          Max(old.right - old.left, 1))
HeightChange(old, new) ==
    Ratio(Abs((new.top - new.bottom) - (old.top - old.bottom)),
          Max(old.top - old.bottom, 1))
\* |centerXNew - centerXOld| / max(oldWidth, 1), the centers being halves
CenterXChange(old, new) ==
    Ratio(Abs((new.left + new.right) - (old.left + old.right)),
          2 * Max(old.right - old.left, 1))
CenterYChange(old, new) ==
    Ratio(Abs((new.bottom + new.top) - (old.bottom + old.top)),
          2 * Max(old.top - old.bottom, 1))

\* faulty variant: any difference at all counts as a change
HasBBoxChangedAtAll(old, new) == old # new

HasBBoxChangedEnough(old, new) ==
    ~ ( /\ BelowThreshold(WidthChange(old, new))
        /\ BelowThreshold(HeightChange(old, new))
        /\ BelowThreshold(CenterXChange(old, new))
        /\ BelowThreshold(CenterYChange(old, new)) )

(* ---------------- isLongDistanceTrain (types/geops.ts:99-106) ---------- *)
LowerCase == <<"a","b","c","d","e","f","g","h","i","j","k","l","m",
               "n","o","p","q","r","s","t","u","v","w","x","y","z">>
UpperCase == <<"A","B","C","D","E","F","G","H","I","J","K","L","M",
               "N","O","P","Q","R","S","T","U","V","W","X","Y","Z">>
ToUpperChar(c) ==
    IF \E i \in 1..Len(LowerCase) : LowerCase[i] = c
    THEN UpperCase[CHOOSE i \in 1..Len(LowerCase) : LowerCase[i] = c]
    ELSE c
ToUpperCase(s) == [i \in 1..Len(s) |-> ToUpperChar(s[i])]
StartsWith(s, p) == Len(s) >= Len(p) /\ SubSeq(s, 1, Len(p)) = p

LONG_DISTANCE_PREFIXES ==
    << <<"I","C">>, <<"I","C","E">>, <<"E","C">>, <<"T","G","V">>,
       <<"R","J","X">>, <<"N","J">>, <<"E","N">>, <<"I","R">> >>

\* faulty variant: the name is compared as written, without toUpperCase
IsLongDistanceTrainCaseSensitive(lineName) ==
    IF lineName = None \/ Get(lineName) = <<>> THEN FALSE
    ELSE \E k \in 1..Len(LONG_DISTANCE_PREFIXES) :
            StartsWith(Get(lineName), LONG_DISTANCE_PREFIXES[k])

\* lineName is optional; an absent or empty name is falsy
IsLongDistanceTrain(lineName) ==
    IF lineName = None \/ Get(lineName) = <<>> THEN FALSE
    ELSE \E k \in 1..Len(LONG_DISTANCE_PREFIXES) :
            StartsWith(ToUpperCase(Get(lineName)), LONG_DISTANCE_PREFIXES[k])

(* ---------------- frames handed to ws.send ----------------------------- *)
\* `BBOX l b r t 9[ mots=a,b]`: the mots part is present iff the list is not empty
BBoxFrame(box, mots) ==
    [kind |-> "BBOX", box |-> Some(box), zoom |-> ZOOM_LEVEL,
     mots |-> IF Len(mots) > 0 THEN Some(mots) ELSE None, n |-> 0]
BufferFrame ==
    [kind |-> "BUFFER", box |-> None, zoom |-> 0, mots |-> None, n |-> BUFFER_SIZE]
PingFrame ==
    [kind |-> "PING", box |-> None, zoom |-> 0, mots |-> None, n |-> 0]

\* faulty variant: the subscription is sent without the buffer-replay request
SubscribeFramesNoBuffer(wsv, conn, bbox, mots) ==
    IF wsv = 0 \/ ~conn \/ bbox = None THEN <<>>
    ELSE << BBoxFrame(Get(bbox), mots) >>

\* subscribeToBBox: the frames it sends on this.ws (none when it returns early)
SubscribeFrames(wsv, conn, bbox, mots) ==
    IF wsv = 0 \/ ~conn \/ bbox = None THEN <<>>
    ELSE << BBoxFrame(Get(bbox), mots), BufferFrame >>

(* ---------------- the trajectory store and its events ------------------ *)
TrajectoryEvent(id, coords, type) ==
    [kind |-> "trajectory", id |-> id, coords |-> coords, type |-> type]
DeleteEvent(id) ==
    [kind |-> "delete", id |-> id, coords |-> <<>>, type |-> None]

Ids(traj) == {traj[i].id : i \in 1..Len(traj)}
Entry(traj, id) == traj[CHOOSE i \in 1..Len(traj) : traj[i].id = id]
Has(traj, id) == id \in Ids(traj)

\* faulty variant: an existing entry is merged with the new one, keeping the
\* old value of every optional attribute the new one lacks
MapSetMerging(traj, t) ==
    LET Keep(old, new) == IF new = None THEN old ELSE new
        Merge(o) == [t EXCEPT !.lineName = Keep(o.lineName, @),
                              !.lineColor = Keep(o.lineColor, @),
                              !.destination = Keep(o.destination, @),
                              !.delay = Keep(o.delay, @),
                              !.type = Keep(o.type, @),
                              !.state = Keep(o.state, @)]
    IN IF \E i \in 1..Len(traj) : traj[i].id = t.id
       THEN [i \in 1..Len(traj) |-> IF traj[i].id = t.id THEN Merge(traj[i]) ELSE traj[i]]
       ELSE Append(traj, t)

\* Map.set: an existing key keeps its place, a new key goes last
MapSet(traj, t) ==
    IF Has(traj, t.id)
    THEN [i \in 1..Len(traj) |-> IF traj[i].id = t.id THEN t ELSE traj[i]]
    ELSE Append(traj, t)
\* faulty variant: the whole map is cleared
MapDeleteAll(traj, id) == <<>>

\* Map.delete
MapDelete(traj, id) == SelectSeq(traj, LAMBDA e : e.id # id)

\* faulty variant: the entries are deleted without a call of the listener
EvictSilently(st, gone, hasListener) ==
    [st EXCEPT !.traj = SelectSeq(st.traj, LAMBDA e : e.id \notin gone)]

\* for (const [id, t] of trajectories) if (id in gone) { delete(id); onVehicleDelete?.(id) }
\* gone is the set of ids the loop's test selects; events follow iteration order
Evict(st, gone, hasListener) ==
    LET out == SelectSeq(st.traj, LAMBDA e : e.id \in gone)
    IN [st EXCEPT !.traj = SelectSeq(st.traj, LAMBDA e : e.id \notin gone),
                  !.ev = IF hasListener
                         THEN @ \o [i \in 1..Len(out) |-> DeleteEvent(out[i].id)]
                         ELSE @]

\* faulty variant: a coordinate on the edge of the box counts as outside
OutsideOrOnEdge(e, box) ==
    /\ Len(e.coords) > 0
    /\ LET last == e.coords[Len(e.coords)]
       IN \/ last[1] <= box.left \/ last[1] >= box.right
          \/ last[2] <= box.bottom \/ last[2] >= box.top

\* updateBBox's test: the last coordinate lies outside the box (part_000:260-266)
OutsideBBox(e, box) ==
    /\ Len(e.coords) > 0
    /\ LET last == e.coords[Len(e.coords)]
       IN \/ last[1] < box.left \/ last[1] > box.right
          \/ last[2] < box.bottom \/ last[2] > box.top

(* ---------------- inbound messages ------------------------------------- *)
\* bound: elements in a buffer message's content list
MaxBuffer == 2

\* A trajectory feature as JSON.parse delivers it; absent members are None.
Feature(id, coords, intervals, line, type, delay, destination, state) ==
    [hasProperties |-> TRUE, hasGeometry |-> TRUE, train_id |-> id,
     coordinates |-> coords, time_intervals |-> intervals, line |-> line,
     type |-> type, delay |-> delay, destination |-> destination, state |-> state]
Line(name, color) == [name |-> name, color |-> color]

\* the result of JSON.parse(data): it throws ("invalid"), or yields null, or an
\* envelope {source, content}; content is a feature, an id or a list of envelopes
Envelope(source, isArray, feature, id, items) ==
    [json |-> "object", source |-> source, isArray |-> isArray,
     feature |-> feature, id |-> id, items |-> items]
TrajectoryMsg(feature) == Envelope("trajectory", FALSE, feature, "", <<>>)
DeletedMsg(id) == Envelope("deleted_vehicles", FALSE, None, id, <<>>)
BufferMsg(items) == Envelope("buffer", TRUE, None, "", items)
BufferNotArrayMsg == Envelope("buffer", FALSE, None, "", <<>>)
OtherMsg == Envelope("websocket", FALSE, None, "", <<>>)
NullJson == [json |-> "null", source |-> "", isArray |-> FALSE,
             feature |-> None, id |-> "", items |-> <<>>]
NonJson == [json |-> "invalid", source |-> "", isArray |-> FALSE,
            feature |-> None, id |-> "", items |-> <<>>]

\* line?.name and line?.color
LineName(f) == IF f.line = None THEN None ELSE Some(Get(f.line).name)
LineColor(f) == IF f.line = None THEN None ELSE Get(f.line).color

\* the VehicleTrajectory object built at part_000:401-411
NewTrajectory(f) ==
    [id |-> Get(f.train_id), coords |-> Get(f.coordinates),
     timeIntervals |-> Get(f.time_intervals),
     lineName |-> LineName(f), lineColor |-> LineColor(f),
     destination |-> f.destination, delay |-> f.delay,
     type |-> f.type, state |-> f.state]

\* faulty variant: an empty coordinate path is let through
RejectedUnlessEmptyPath(feature) ==
    \/ feature = None
    \/ ~Get(feature).hasProperties
    \/ ~Get(feature).hasGeometry
    \/ LET f == Get(feature)
       IN \/ f.train_id = None \/ Get(f.train_id) = ""
          \/ f.time_intervals = None
          \/ f.coordinates = None
          \/ ( /\ longDistanceOnly
               /\ f.type = Some("rail")
               /\ ~IsLongDistanceTrain(LineName(f)) )

\* faulty variant: the long-distance filter is applied to every mode
RejectedAnyMode(feature) ==
    \/ feature = None
    \/ ~Get(feature).hasProperties
    \/ ~Get(feature).hasGeometry
    \/ LET f == Get(feature)
       IN \/ f.train_id = None \/ Get(f.train_id) = ""
          \/ f.time_intervals = None
          \/ f.coordinates = None \/ Len(Get(f.coordinates)) = 0
          \/ ( /\ longDistanceOnly
               /\ ~IsLongDistanceTrain(LineName(f)) )

\* faulty variant: the long-distance test is not made on write
RejectedNoNameTest(feature) ==
    \/ feature = None
    \/ ~Get(feature).hasProperties
    \/ ~Get(feature).hasGeometry
    \/ LET f == Get(feature)
       IN \/ f.train_id = None \/ Get(f.train_id) = ""
          \/ f.time_intervals = None
          \/ f.coordinates = None \/ Len(Get(f.coordinates)) = 0

\* the early returns of processTrajectory (part_000:386-398)
Rejected(feature) ==
    \/ feature = None
    \/ ~Get(feature).hasProperties
    \/ ~Get(feature).hasGeometry
    \/ LET f == Get(feature)
       IN \/ f.train_id = None \/ Get(f.train_id) = ""
          \/ f.time_intervals = None
          \/ f.coordinates = None \/ Len(Get(f.coordinates)) = 0
          \/ ( /\ longDistanceOnly
               /\ f.type = Some("rail")
               /\ ~IsLongDistanceTrain(LineName(f)) )

\* processTrajectory on the handler state st = [traj, ev, threw]
ProcessTrajectory(st, feature) ==
    IF Rejected(feature) THEN st
    ELSE LET t == NewTrajectory(Get(feature))
         IN [st EXCEPT !.traj = MapSet(@, t),
                       !.ev = IF onTrajectoryUpdate
                              THEN Append(@, TrajectoryEvent(t.id, t.coords, t.type))
                              ELSE @]

\* faulty variant: the listener is told, the entry stays in the Map
DeleteVehicleNotifyOnly(st, id) ==
    [st EXCEPT !.ev = IF onVehicleDelete THEN Append(@, DeleteEvent(id)) ELSE @]

\* trajectories.delete(trainId); onVehicleDelete?.(trainId)
DeleteVehicle(st, id) ==
    [st EXCEPT !.traj = MapDelete(@, id),
               !.ev = IF onVehicleDelete THEN Append(@, DeleteEvent(id)) ELSE @]

\* processBufferedItem: reading item.source of a null item throws a TypeError
ProcessBufferedItem(st, item) ==
    IF item.json = "null" THEN [st EXCEPT !.threw = TRUE]
    ELSE IF item.source = "trajectory" THEN ProcessTrajectory(st, item.feature)
    ELSE IF item.source = "deleted_vehicles" THEN DeleteVehicle(st, item.id)
    ELSE st

\* for (const item of content) processBufferedItem(item): an exception leaves the loop
RECURSIVE ProcessItems(_, _)
ProcessItems(st, items) ==
    IF items = <<>> \/ st.threw THEN st
    ELSE ProcessItems(ProcessBufferedItem(st, Head(items)), Tail(items))

\* handleMessage: everything thrown inside the try block is swallowed by the catch
HandleMessageOn(st, data) ==
    IF data.json = "invalid" THEN st
    ELSE IF data.json = "null" THEN st
    ELSE IF data.source = "buffer" /\ data.isArray
         THEN [ProcessItems(st, data.items) EXCEPT !.threw = FALSE]
    ELSE IF data.source = "trajectory" THEN ProcessTrajectory(st, data.feature)
    ELSE IF data.source = "deleted_vehicles" THEN DeleteVehicle(st, data.id)
    ELSE st

\* the handler state at the start of a handler: the store, no event yet
Start == [traj |-> trajectories, ev |-> <<>>, threw |-> FALSE]

(* ---------------- interpolation (part_000:421-512) ---------------------- *)
\* JavaScript numbers that arise from the integer inputs are kept as exact
\* fractions num/den with den > 0, in lowest terms
RECURSIVE GCD(_, _)
GCD(a, b) == IF b = 0 THEN a ELSE GCD(b, a % b)
Rat(n, d) ==
    LET g == GCD(Abs(n), Abs(d))
        sgn == IF d < 0 THEN -1 ELSE 1
    IN [num |-> (sgn * n) \div g, den |-> (sgn * d) \div g]
RInt(n) == [num |-> n, den |-> 1]
RAdd(a, b) == Rat(a.num * b.den + b.num * a.den, a.den * b.den)
RSub(a, b) == Rat(a.num * b.den - b.num * a.den, a.den * b.den)
RMul(a, b) == Rat(a.num * b.num, a.den * b.den)
\* Math.floor
RFloor(a) == a.num \div a.den
Min(a, b) == IF a <= b THEN a ELSE b

\* what interpolatePosition yields: a position, null, or a TypeError raised by
\* reading [0] of coords[idx] when idx is not an index of coords
Position(x, y, rotation) == [kind |-> "position", x |-> x, y |-> y, rotation |-> rotation]
NoPosition == [kind |-> "null", x |-> RInt(0), y |-> RInt(0), rotation |-> RInt(0)]
PositionThrows == [kind |-> "throws", x |-> RInt(0), y |-> RInt(0), rotation |-> RInt(0)]

\* faulty variant: prev is the first interval that is not later than now
FindTimeIntervalsFirstPrev(timeIntervals, now) ==
    LET later == {i \in 1..Len(timeIntervals) : timeIntervals[i][1] > now}
        k == IF later = {} THEN 0 ELSE CHOOSE i \in later : \A j \in later : i <= j
    IN [prev |-> IF k = 1 \/ Len(timeIntervals) = 0 THEN None
                 ELSE Some(timeIntervals[1]),
        next |-> IF k = 0 THEN None ELSE Some(timeIntervals[k])]

\* findTimeIntervals: the loop stops at the first interval that starts after now
FindTimeIntervals(timeIntervals, now) ==
    LET later == {i \in 1..Len(timeIntervals) : timeIntervals[i][1] > now}
        k == IF later = {} THEN 0 ELSE CHOOSE i \in later : \A j \in later : i <= j
    IN [prev |-> IF k = 0
                 THEN (IF Len(timeIntervals) = 0 THEN None
                       ELSE Some(timeIntervals[Len(timeIntervals)]))
                 ELSE IF k = 1 THEN None ELSE Some(timeIntervals[k - 1]),
        next |-> IF k = 0 THEN None ELSE Some(timeIntervals[k])]

\* coords[i] of the source (i counts from 0) is undefined outside 0..length-1
Defined(coords, i) == i \in 0..(Len(coords) - 1)

\* getPositionAtFraction; coords[idx] of the source is coords[idx + 1] here
GetPositionAtFraction(coords, fraction, rotation) ==
    LET idx == Min(RFloor(RMul(fraction, RInt(Len(coords) - 1))), Len(coords) - 1)
    IN IF ~Defined(coords, idx) THEN PositionThrows
       ELSE Position(RInt(coords[idx + 1][1]), RInt(coords[idx + 1][2]), rotation)

\* faulty variant: no interpolation between the two vertices
InterpolateBetweenIntervalsSnapping(coords, prev, next, now) ==
    LET timeDiff == next[1] - prev[1]
        timeProgress == IF timeDiff > 0 THEN Rat(now - prev[1], timeDiff) ELSE RInt(0)
        fraction == RAdd(prev[2], RMul(RSub(next[2], prev[2]), timeProgress))
    IN GetPositionAtFraction(coords, fraction, RInt(prev[3]))

\* faulty variant: the last vertex is returned only past it, so that at the
\* last vertex coords[idx + 1] is read
InterpolateBetweenIntervalsLateClamp(coords, prev, next, now) ==
    LET timeDiff == next[1] - prev[1]
        timeProgress == IF timeDiff > 0 THEN Rat(now - prev[1], timeDiff) ELSE RInt(0)
        fraction == RAdd(prev[2], RMul(RSub(next[2], prev[2]), timeProgress))
        totalLength == Len(coords) - 1
        floatIdx == RMul(fraction, RInt(totalLength))
        idx == RFloor(floatIdx)
        subFraction == RSub(floatIdx, RInt(idx))
    IN IF idx > Len(coords) - 1
       THEN Position(RInt(coords[Len(coords)][1]), RInt(coords[Len(coords)][2]),
                     RInt(next[3]))
       ELSE IF ~Defined(coords, idx) \/ ~Defined(coords, idx + 1) THEN PositionThrows
       ELSE Position(
                RAdd(RInt(coords[idx + 1][1]),
                     RMul(RInt(coords[idx + 2][1] - coords[idx + 1][1]), subFraction)),
                RAdd(RInt(coords[idx + 1][2]),
                     RMul(RInt(coords[idx + 2][2] - coords[idx + 1][2]), subFraction)),
                RAdd(RInt(prev[3]), RMul(RInt(next[3] - prev[3]), timeProgress)))

\* interpolateBetweenIntervals
InterpolateBetweenIntervals(coords, prev, next, now) ==
    LET timeDiff == next[1] - prev[1]
        timeProgress == IF timeDiff > 0 THEN Rat(now - prev[1], timeDiff) ELSE RInt(0)
        fraction == RAdd(prev[2], RMul(RSub(next[2], prev[2]), timeProgress))
        totalLength == Len(coords) - 1
        floatIdx == RMul(fraction, RInt(totalLength))
        idx == RFloor(floatIdx)
        subFraction == RSub(floatIdx, RInt(idx))
    IN IF idx >= Len(coords) - 1
       THEN Position(RInt(coords[Len(coords)][1]), RInt(coords[Len(coords)][2]),
                     RInt(next[3]))
       ELSE IF ~Defined(coords, idx) \/ ~Defined(coords, idx + 1) THEN PositionThrows
       ELSE Position(
                RAdd(RInt(coords[idx + 1][1]),
                     RMul(RInt(coords[idx + 2][1] - coords[idx + 1][1]), subFraction)),
                RAdd(RInt(coords[idx + 1][2]),
                     RMul(RInt(coords[idx + 2][2] - coords[idx + 1][2]), subFraction)),
                RAdd(RInt(prev[3]), RMul(RInt(next[3] - prev[3]), timeProgress)))

\* faulty variant: nothing is returned before the first interval
InterpolatePositionNullBeforeStart(coords, timeIntervals, now) ==
    IF Len(timeIntervals) = 0 THEN NoPosition
    ELSE LET found == FindTimeIntervals(timeIntervals, now)
         IN IF found.next = None /\ found.prev # None
            THEN GetPositionAtFraction(coords, Get(found.prev)[2],
                                       RInt(Get(found.prev)[3]))
            ELSE IF found.prev # None /\ found.next # None
            THEN InterpolateBetweenIntervals(coords, Get(found.prev), Get(found.next), now)
            ELSE NoPosition

\* interpolatePosition
InterpolatePosition(coords, timeIntervals, now) ==
    IF Len(timeIntervals) = 0 THEN NoPosition
    ELSE LET found == FindTimeIntervals(timeIntervals, now)
         IN IF found.next = None /\ found.prev # None
            THEN GetPositionAtFraction(coords, Get(found.prev)[2],
                                       RInt(Get(found.prev)[3]))
            ELSE IF found.prev = None /\ found.next # None
            THEN GetPositionAtFraction(coords, Get(found.next)[2],
                                       RInt(Get(found.next)[3]))
            ELSE IF found.prev # None /\ found.next # None
            THEN InterpolateBetweenIntervals(coords, Get(found.prev), Get(found.next), now)
            ELSE NoPosition

(* ---------------- snapshots (part_000:197-226) ------------------------- *)
\* the Vehicle pushed at part_000:205-216
Vehicle(t, position) ==
    [id |-> t.id, x |-> position.x, y |-> position.y, rotation |-> position.rotation,
     lineName |-> t.lineName, lineColor |-> t.lineColor, destination |-> t.destination,
     delay |-> t.delay, type |-> t.type, state |-> t.state]

\* faulty variant: the loop ends at the first trajectory without a position
BuildVehicleListBreaking(traj, now) ==
    LET located == [i \in 1..Len(traj) |->
                       [t |-> traj[i],
                        position |-> InterpolatePosition(traj[i].coords,
                                                         traj[i].timeIntervals, now)]]
        stops == {i \in 1..Len(located) : located[i].position.kind # "position"}
        kept == IF stops = {} THEN located
                ELSE SubSeq(located, 1, (CHOOSE i \in stops : \A j \in stops : i <= j) - 1)
    IN [threw |-> \E i \in 1..Len(located) : located[i].position.kind = "throws",
        vehicles |-> [i \in 1..Len(kept) |-> Vehicle(kept[i].t, kept[i].position)]]

\* buildVehicleList at time now: entries without a position are left out; an
\* exception raised for one entry ends the call without a list
BuildVehicleList(traj, now) ==
    LET located == [i \in 1..Len(traj) |->
                       [t |-> traj[i],
                        position |-> InterpolatePosition(traj[i].coords,
                                                         traj[i].timeIntervals, now)]]
        kept == SelectSeq(located, LAMBDA r : r.position.kind = "position")
    IN [threw |-> \E i \in 1..Len(located) : located[i].position.kind = "throws",
        vehicles |-> [i \in 1..Len(kept) |-> Vehicle(kept[i].t, kept[i].position)]]

(* ---------------- inputs ------------------------------------------------ *)
BoxA == Box(0, 0, 100, 100)
\* BoxA moved by 1% of its width and height
BoxA2 == Box(1, 1, 101, 101)
BoxB == Box(50, 50, 150, 150)
Boxes == {BoxA, BoxA2, BoxB}

\* the lists the host passes (main.ts:231-237, 348) and the constructor's default
HostMots == { <<"rail">>, <<"rail", "bus", "tram">> }
\* and the empty list, for which the BBOX command carries no mots part
MotsChoices == HostMots \cup { <<>> }

LineIC5 == <<"I", "C", "5">>
LineS3 == <<"S", "3">>
\* [timestamp, fraction, rotation]; the fraction is an exact fraction num/den
Intervals2 == << <<1000, RInt(0), 0>>, <<2000, RInt(1), 0>> >>

\* V1, rail IC5, every optional attribute present; last point inside all boxes
FeatV1Full ==
    Feature(Some("V1"), Some(<< <<10, 10>>, <<60, 60>> >>), Some(Intervals2),
            Some(Line(LineIC5, Some("red"))), Some("rail"), Some(120),
            Some("Bern"), Some("DRIVING"))
\* V1 with no optional attribute; last point inside BoxA and BoxA2, outside BoxB
FeatV1Bare ==
    Feature(Some("V1"), Some(<< <<10, 10>> >>), Some(<<>>),
            None, None, None, None, None)
\* V2, bus S3; last point inside BoxA and BoxA2, on the left edge of BoxB
FeatV2Bus ==
    Feature(Some("V2"), Some(<< <<60, 60>>, <<50, 60>> >>), Some(Intervals2),
            Some(Line(LineS3, None)), Some("bus"), None, Some("Thun"), None)
\* V2, rail S3; last point outside BoxA and BoxA2, inside BoxB
FeatV2Rail ==
    Feature(Some("V2"), Some(<< <<120, 120>> >>), Some(Intervals2),
            Some(Line(LineS3, None)), Some("rail"), Some(0), None, None)
GoodFeatures == {FeatV1Full, FeatV1Bare, FeatV2Bus, FeatV2Rail}

\* features that fail validation
FeatNoId == [FeatV1Full EXCEPT !.train_id = None]
FeatEmptyId == [FeatV1Full EXCEPT !.train_id = Some("")]
FeatNoIntervals == [FeatV1Full EXCEPT !.time_intervals = None]
FeatNoCoords == [FeatV2Bus EXCEPT !.coordinates = None]
FeatEmptyCoords == [FeatV2Bus EXCEPT !.coordinates = Some(<<>>)]
FeatNoProperties == [FeatV1Full EXCEPT !.hasProperties = FALSE, !.train_id = None,
                        !.time_intervals = None, !.line = None, !.type = None,
                        !.delay = None, !.destination = None, !.state = None]
FeatNoGeometry == [FeatV2Bus EXCEPT !.hasGeometry = FALSE, !.coordinates = None]
BadFeatures == {FeatNoId, FeatEmptyId, FeatNoIntervals, FeatNoCoords,
                FeatEmptyCoords, FeatNoProperties, FeatNoGeometry}

VehicleIds == {"V1", "V2"}

\* what a buffer's content list may hold
BufferItems ==
    {TrajectoryMsg(Some(FeatV1Full)), TrajectoryMsg(Some(FeatNoId)),
     DeletedMsg("V1"), NullJson}
BufferLists == UNION {[1..n -> BufferItems] : n \in 0..MaxBuffer}

\* the frames the transport may deliver to onmessage
\* {"source": "deleted_vehicles", "content": null}: NullContent stands for the
\* null that is passed on as trainId; it is never a key of the Map
NullContent == "<null>"
DeletedNullMsg == DeletedMsg(NullContent)

Messages ==
    {TrajectoryMsg(Some(f)) : f \in GoodFeatures \cup BadFeatures}
    \cup {TrajectoryMsg(None)}
    \cup {DeletedMsg(id) : id \in VehicleIds}
    \cup {BufferMsg(l) : l \in BufferLists}
    \cup {BufferNotArrayMsg, OtherMsg, NullJson, NonJson}

(* ---------------- constructor (part_000:77-81) ------------------------- *)
\* the value of lastCall: op names the operation, and the field that belongs to
\* op holds its argument (the other fields keep a fixed value)
Call(op, mots, enabled, data) == [op |-> op, mots |-> mots, enabled |-> enabled, data |-> data]
NoCall == Call("none", <<>>, FALSE, NullJson)

NoInput == Box(0, 0, 0, 0)

\* the value of tick: the id of the frame whose callback ran, its timestamp,
\* whether it made an update pass, the interval it compared with, and the
\* number handed to onFpsUpdate (None when the listener was not called)
Tick(frame, at, pass, interval, fps) ==
    [frame |-> frame, at |-> at, pass |-> pass, interval |-> interval, fps |-> fps]
NoTick == Tick(0, 0, FALSE, 0, None)

\* the value of host: pc is the next call of the running viewport handler
\* ("idle" when none runs), area and box are the extent it was started for,
\* calls are the calls it has made so far; ids is the set of vehicles the
\* host's listeners keep (main.ts:256-268)
HostCall(op, mots, enabled, box) ==
    [op |-> op, mots |-> mots, enabled |-> enabled, box |-> box]
HostIdle == [pc |-> "idle", area |-> 0, box |-> NoInput, calls |-> <<>>, ids |-> {}]

\* the host's set after the listener calls ev: a trajectory event adds its id,
\* a deletion event removes it
RECURSIVE Heard(_, _)
Heard(ids, ev) ==
    IF ev = <<>> THEN ids
    ELSE Heard(IF Head(ev).kind = "trajectory" THEN ids \cup {Head(ev).id}
               ELSE ids \ {Head(ev).id},
               Tail(ev))

Constructed(mots) ==
    /\ currentMots = mots
    \* connect(): new WebSocket(url)
    /\ sock = [s \in SocketIds |-> IF s = 1 THEN "CONNECTING" ELSE "NONE"]
    /\ ws = 1
    /\ sent = <<>>
    /\ isConnected = FALSE
    /\ reconnectTimeout = 0
    /\ pingInterval = 0
    /\ pendingTimeouts = {}
    /\ activePings = {}
    \* startAnimation(): requestAnimationFrame(animate)
    /\ animationFrame = 1
    /\ currentBBox = None
    /\ longDistanceOnly = FALSE
    /\ trajectories = <<>>
    /\ onVehicleDelete = FALSE
    /\ onTrajectoryUpdate = FALSE
    /\ events = <<>>
    /\ lastBox = None
    /\ disconnectCalled = FALSE
    /\ onVehicleUpdate = FALSE
    /\ snapshot = None
    /\ deletedIds = {}
    /\ lastCall = NoCall
    /\ lastUpdateTime = 0
    /\ isAnimating = FALSE
    /\ lastFpsUpdateTime = 0
    /\ frameCount = 0
    /\ fpsCalculationStart = 0
    /\ onFpsUpdate = FALSE
    /\ pendingFrames = {1}
    /\ clock = 0
    /\ lastPass = None
    /\ tick = NoTick
    /\ lastReport = None
    /\ passesSince = 0
    /\ host = HostIdle

Init ==
    /\ \E mots \in HostMots : Constructed(mots)
    /\ oldB = NoInput /\ newB = NoInput /\ changed = None
    /\ input = None /\ output = None

(* ---------------- connection lifecycle --------------------------------- *)
Live(s) == sock[s] \in {"CONNECTING", "OPEN"}
Unused == {s \in SocketIds : sock[s] = "NONE"}
Fresh == CHOOSE s \in Unused : \A u \in Unused : s <= u

\* ws.send throws InvalidStateError on a socket that is still connecting
SendThrows(state) == ws # 0 /\ state[ws] = "CONNECTING"

\* faulty variant: the handle is forgotten but the interval keeps running
StopPingKeepsTimer ==
    /\ pingInterval' = 0
    /\ UNCHANGED activePings

\* stopPing (part_000:120-125)
StopPing ==
    IF pingInterval # 0
    THEN /\ activePings' = {p \in activePings : p.id # pingInterval}
         /\ pingInterval' = 0
    ELSE UNCHANGED <<activePings, pingInterval>>

\* ws.onopen of socket s (part_000:88-95)
OnOpen(s) ==
    /\ sock[s] = "CONNECTING"
    /\ sock' = [sock EXCEPT ![s] = "OPEN"]
    /\ isConnected' = TRUE
    /\ LET frames == SubscribeFrames(ws, TRUE, currentBBox, currentMots)
           throws == frames # <<>> /\ SendThrows(sock')
       IN /\ sent' = IF throws THEN sent ELSE sent \o frames
          \* startPing(): a new interval; the handle of any earlier one is overwritten
          /\ IF throws
             THEN UNCHANGED <<pingInterval, activePings>>
             ELSE /\ pingInterval' = s
                  /\ activePings' = activePings \cup {[id |-> s, period |-> PING_INTERVAL]}
    /\ events' = <<>> /\ lastBox' = None
    /\ UNCHANGED <<ws, reconnectTimeout, pendingTimeouts, animationFrame,
                   disconnectCalled, subVars, trajectories, onVehicleDelete,
                   onTrajectoryUpdate, testVars>>

\* faulty variant: only the close of the first socket schedules a reconnect
OnCloseGivesUp(s) ==
    /\ sock[s] \in {"CONNECTING", "OPEN", "CLOSING"}
    /\ sock' = [sock EXCEPT ![s] = "CLOSED"]
    /\ isConnected' = FALSE
    /\ StopPing
    /\ reconnectTimeout' = IF s = 1 THEN s ELSE reconnectTimeout
    /\ pendingTimeouts' = IF s = 1
                          THEN pendingTimeouts \cup {[id |-> s, delay |-> RECONNECT_DELAY]}
                          ELSE pendingTimeouts
    /\ events' = <<>> /\ lastBox' = None
    /\ UNCHANGED <<sent, ws, animationFrame, disconnectCalled, subVars,
                   trajectories, onVehicleDelete, onTrajectoryUpdate, testVars>>

\* ws.onclose of socket s (part_000:105-109); the handler stays attached to a
\* socket that disconnect() closed
OnClose(s) ==
    /\ sock[s] \in {"CONNECTING", "OPEN", "CLOSING"}
    /\ sock' = [sock EXCEPT ![s] = "CLOSED"]
    /\ isConnected' = FALSE
    /\ StopPing
    /\ reconnectTimeout' = s
    /\ pendingTimeouts' = pendingTimeouts \cup {[id |-> s, delay |-> RECONNECT_DELAY]}
    /\ events' = <<>> /\ lastBox' = None
    /\ UNCHANGED <<sent, ws, animationFrame, disconnectCalled, subVars,
                   trajectories, onVehicleDelete, onTrajectoryUpdate, testVars>>

\* the reconnect timer t fires: connect() (part_000:83-86, 108)
ReconnectFire(t) ==
    /\ t \in pendingTimeouts
    /\ Unused # {}
    /\ pendingTimeouts' = pendingTimeouts \ {t}
    /\ sock' = [sock EXCEPT ![Fresh] = "CONNECTING"]
    /\ ws' = Fresh
    /\ sent' = <<>>
    /\ events' = <<>> /\ lastBox' = None
    /\ UNCHANGED <<isConnected, reconnectTimeout, pingInterval, activePings,
                   animationFrame, disconnectCalled, subVars, trajectories,
                   onVehicleDelete, onTrajectoryUpdate, testVars>>

\* the keepalive interval p fires (part_000:113-117)
PingFire(p) ==
    /\ p \in activePings
    /\ (ws # 0 /\ isConnected) => Len(sent) < MaxSent
    /\ sent' = IF ws # 0 /\ isConnected /\ ~SendThrows(sock)
               THEN Append(sent, PingFrame) ELSE sent
    /\ events' = <<>> /\ lastBox' = None
    /\ UNCHANGED <<sock, ws, isConnected, reconnectTimeout, pingInterval,
                   pendingTimeouts, activePings, animationFrame, disconnectCalled,
                   subVars, trajectories, onVehicleDelete, onTrajectoryUpdate,
                   testVars>>

\* faulty variant: the handle is forgotten but the frame is not cancelled
StopAnimationKeepsFrame ==
    /\ animationFrame' = 0
    /\ pendingFrames' = pendingFrames

\* stopAnimation(): cancelAnimationFrame(this.animationFrame) unless it is null
StopAnimation ==
    /\ animationFrame' = 0
    /\ pendingFrames' = pendingFrames \ {animationFrame}

\* disconnect() (part_000:557-567)
Disconnect ==
    /\ pendingTimeouts' = IF reconnectTimeout # 0
                          THEN {t \in pendingTimeouts : t.id # reconnectTimeout}
                          ELSE pendingTimeouts
    /\ StopPing
    /\ StopAnimation
    \* ws.close() starts the closing handshake; the close event comes later
    /\ sock' = IF ws # 0 /\ Live(ws) THEN [sock EXCEPT ![ws] = "CLOSING"] ELSE sock
    /\ ws' = 0
    /\ disconnectCalled' = TRUE
    /\ events' = <<>> /\ lastBox' = None
    /\ UNCHANGED <<sent, isConnected, reconnectTimeout, subVars, trajectories,
                   onVehicleDelete, onTrajectoryUpdate, testVars>>

(* ---------------- host calls ------------------------------------------- *)
\* the ids updateBBox evicts for the new box (part_000:258-273)
OutsideIds(traj, box) ==
    {traj[i].id : i \in {j \in 1..Len(traj) : OutsideBBox(traj[j], box)}}

\* updateBBox(left, bottom, right, top) (part_000:246-279)
UpdateBBox(box) ==
    IF currentBBox # None /\ ~HasBBoxChangedEnough(Get(currentBBox), box)
    THEN /\ events' = <<>> /\ lastBox' = Some(box)
         /\ UNCHANGED <<connVars, subVars, trajectories, onVehicleDelete,
                        onTrajectoryUpdate, testVars>>
    ELSE LET r == Evict(Start, OutsideIds(trajectories, box), onVehicleDelete)
             frames == SubscribeFrames(ws, isConnected, Some(box), currentMots)
         IN /\ Len(sent) + Len(frames) <= MaxSent
            /\ trajectories' = r.traj
            /\ events' = r.ev /\ lastBox' = Some(box)
            /\ currentBBox' = Some(box)
            /\ sent' = IF SendThrows(sock) THEN sent ELSE sent \o frames
            /\ UNCHANGED <<sock, ws, isConnected, reconnectTimeout, pingInterval,
                           pendingTimeouts, activePings, animationFrame,
                           disconnectCalled, currentMots, longDistanceOnly,
                           onVehicleDelete, onTrajectoryUpdate, testVars>>

\* previousMots.length !== mots.length || !previousMots.every(m => mots.includes(m))
MotsDiffer(previous, mots) ==
    \/ Len(previous) # Len(mots)
    \/ \E i \in 1..Len(previous) : \A j \in 1..Len(mots) : mots[j] # previous[i]

\* !trajectory.type || !mots.includes(trajectory.type)
NotInMots(e, mots) ==
    \/ e.type = None \/ Get(e.type) = ""
    \/ \A j \in 1..Len(mots) : mots[j] # Get(e.type)

\* faulty variant: the new list is sent to the server at once
SetTransportFilterResubscribing(mots) ==
    LET gone == IF MotsDiffer(currentMots, mots)
                THEN {trajectories[i].id :
                        i \in {j \in 1..Len(trajectories) : NotInMots(trajectories[j], mots)}}
                ELSE {}
        r == Evict(Start, gone, onVehicleDelete)
        frames == SubscribeFrames(ws, isConnected, currentBBox, mots)
    IN /\ Len(sent) + Len(frames) <= MaxSent
       /\ currentMots' = mots
       /\ trajectories' = r.traj
       /\ events' = r.ev /\ lastBox' = None
       /\ sent' = IF SendThrows(sock) THEN sent ELSE sent \o frames
       /\ UNCHANGED <<sock, ws, isConnected, reconnectTimeout, pingInterval,
                      pendingTimeouts, activePings, animationFrame,
                      disconnectCalled, currentBBox, longDistanceOnly,
                      onVehicleDelete, onTrajectoryUpdate, testVars>>

\* setTransportFilter(mots) (part_000:312-327)
SetTransportFilter(mots) ==
    LET gone == IF MotsDiffer(currentMots, mots)
                THEN {trajectories[i].id :
                        i \in {j \in 1..Len(trajectories) : NotInMots(trajectories[j], mots)}}
                ELSE {}
        r == Evict(Start, gone, onVehicleDelete)
    IN /\ currentMots' = mots
       /\ trajectories' = r.traj
       /\ events' = r.ev /\ lastBox' = None
       /\ UNCHANGED <<connVars, currentBBox, longDistanceOnly, onVehicleDelete,
                      onTrajectoryUpdate, testVars>>

\* faulty variant: enabling the filter evicts every mode that fails the name test
SetLongDistanceOnlyAllModes(enabled) ==
    LET gone == IF longDistanceOnly # enabled /\ enabled
                THEN {trajectories[i].id :
                        i \in {j \in 1..Len(trajectories) :
                                 ~IsLongDistanceTrain(trajectories[j].lineName)}}
                ELSE {}
        r == Evict(Start, gone, onVehicleDelete)
    IN /\ longDistanceOnly' = enabled
       /\ trajectories' = r.traj
       /\ events' = r.ev /\ lastBox' = None
       /\ UNCHANGED <<connVars, currentMots, currentBBox, onVehicleDelete,
                      onTrajectoryUpdate, testVars>>

\* faulty variant: switching the filter off empties the Map
SetLongDistanceOnlyClearing(enabled) ==
    LET gone == IF longDistanceOnly # enabled
                THEN IF enabled
                     THEN {trajectories[i].id :
                             i \in {j \in 1..Len(trajectories) :
                                      /\ trajectories[j].type = Some("rail")
                                      /\ ~IsLongDistanceTrain(trajectories[j].lineName)}}
                     ELSE Ids(trajectories)
                ELSE {}
        r == Evict(Start, gone, onVehicleDelete)
    IN /\ longDistanceOnly' = enabled
       /\ trajectories' = r.traj
       /\ events' = r.ev /\ lastBox' = None
       /\ UNCHANGED <<connVars, currentMots, currentBBox, onVehicleDelete,
                      onTrajectoryUpdate, testVars>>

\* setLongDistanceOnly(enabled) (part_000:330-345)
SetLongDistanceOnly(enabled) ==
    LET gone == IF longDistanceOnly # enabled /\ enabled
                THEN {trajectories[i].id :
                        i \in {j \in 1..Len(trajectories) :
                                 /\ trajectories[j].type = Some("rail")
                                 /\ ~IsLongDistanceTrain(trajectories[j].lineName)}}
                ELSE {}
        r == Evict(Start, gone, onVehicleDelete)
    IN /\ longDistanceOnly' = enabled
       /\ trajectories' = r.traj
       /\ events' = r.ev /\ lastBox' = None
       /\ UNCHANGED <<connVars, currentMots, currentBBox, onVehicleDelete,
                      onTrajectoryUpdate, testVars>>

\* onDelete(callback) (part_000:518-520)
OnDelete ==
    /\ onVehicleDelete' = TRUE
    /\ events' = <<>> /\ lastBox' = None
    /\ UNCHANGED <<connVars, subVars, trajectories, onTrajectoryUpdate, testVars>>

\* onTrajectory(callback) (part_000:522-524)
OnTrajectory ==
    /\ onTrajectoryUpdate' = TRUE
    /\ events' = <<>> /\ lastBox' = None
    /\ UNCHANGED <<connVars, subVars, trajectories, onVehicleDelete, testVars>>

(* ---------------- ws.onmessage (part_000:97-99) ------------------------ *)
\* a message event is dispatched only on a socket that is open
HandleMessage(data) ==
    /\ \E s \in SocketIds : sock[s] = "OPEN"
    /\ LET r == HandleMessageOn(Start, data)
       IN /\ trajectories' = r.traj
          /\ events' = r.ev /\ lastBox' = None
    /\ UNCHANGED <<connVars, subVars, onVehicleDelete, onTrajectoryUpdate, testVars>>

(* ---------------- snapshots published to the host ----------------------- *)
\* onUpdate(callback) (part_000:514-516)
OnUpdate ==
    /\ onVehicleUpdate' = TRUE
    /\ snapshot' = None
    /\ events' = <<>> /\ lastBox' = None
    /\ UNCHANGED <<connVars, subVars, trajectories, onVehicleDelete,
                   onTrajectoryUpdate, testVars>>

\* the values Date.now() takes: before, at, between, at the end of and after
\* the time intervals of the input features
Times == {500, 1000, 1500, 2000, 2500}

\* faulty variant: the listener is called with the empty list of an empty Map
PublishedEvenEmpty(now) ==
    IF ~onVehicleUpdate THEN None
    ELSE LET r == BuildVehicleList(trajectories, now)
         IN IF r.threw THEN None ELSE Some(r.vehicles)

\* what updateVehiclePositions() hands to onVehicleUpdate at time now: nothing
\* without a listener, with an empty Map, or when buildVehicleList throws
Published(now) ==
    IF ~onVehicleUpdate \/ Len(trajectories) = 0 THEN None
    ELSE LET r == BuildVehicleList(trajectories, now)
         IN IF r.threw THEN None ELSE Some(r.vehicles)

\* updateVehiclePositions() throws at time now (before the listener is called)
UpdateThrows(now) ==
    /\ onVehicleUpdate /\ Len(trajectories) > 0
    /\ BuildVehicleList(trajectories, now).threw

\* updateVehiclePositions(), the update pass the animation loop makes while a
\* frame is scheduled (part_000:159): an exception of buildVehicleList leaves
\* it before the listener is called. events records the trajectory and
\* deletion listeners only.
UpdateVehiclePositions(now) ==
    /\ animationFrame # 0
    /\ snapshot' = Published(now)
    /\ events' = <<>> /\ lastBox' = None
    /\ UNCHANGED <<connVars, subVars, trajectories, onVehicleDelete,
                   onTrajectoryUpdate, testVars, onVehicleUpdate>>

(* ---------------- the history deletedIds -------------------------------- *)
\* the envelopes of a message that handleMessage hands to processTrajectory or
\* to the deletion branch, in order: the message itself, or the elements of a
\* buffer up to the first null element (where the loop is left)
Processed(data) ==
    IF data.json # "object" THEN <<>>
    ELSE IF data.source = "buffer" /\ data.isArray
         THEN LET nulls == {i \in 1..Len(data.items) : data.items[i].json = "null"}
                  n == IF nulls = {} THEN Len(data.items)
                       ELSE (CHOOSE i \in nulls : \A j \in nulls : i <= j) - 1
              IN SubSeq(data.items, 1, n)
    ELSE IF data.source \in {"trajectory", "deleted_vehicles"} THEN <<data>>
    ELSE <<>>

\* deletedIds after the envelopes of items: a deletion adds its id, an accepted
\* trajectory takes its id out
RECURSIVE DeletedAfter(_, _)
DeletedAfter(d, items) ==
    IF items = <<>> THEN d
    ELSE LET item == Head(items)
             next == IF item.source = "deleted_vehicles" THEN d \cup {item.id}
                     ELSE IF item.source = "trajectory" /\ ~Rejected(item.feature)
                          THEN d \ {Get(Get(item.feature).train_id)}
                     ELSE d
         IN DeletedAfter(next, Tail(items))

(* ---------------- specifications --------------------------------------- *)
\* an operation of the service that publishes no snapshot and is not recorded
\* by the histories, and leaves the animation loop alone
Quiet == UNCHANGED <<tickVars, histVars, animVars, host, pendingFrames>>

\* the feed: messages, viewport and filter calls on one connection
Next ==
    \/ \E s \in SocketIds : OnOpen(s) /\ Quiet
    \/ \E s \in SocketIds : OnClose(s) /\ Quiet
    \/ \E data \in Messages : HandleMessage(data) /\ Quiet
    \/ \E box \in Boxes : UpdateBBox(box) /\ Quiet
    \/ \E mots \in HostMots : SetTransportFilter(mots) /\ Quiet
    \/ \E enabled \in BOOLEAN : SetLongDistanceOnly(enabled) /\ Quiet
    \/ OnDelete /\ Quiet
    \/ OnTrajectory /\ Quiet

Spec == Init /\ [][Next]_vars

\* the connection lifecycle: open, close, reconnect, keepalive, teardown
NextConn ==
    \/ \E s \in SocketIds : OnOpen(s) /\ Quiet
    \/ \E s \in SocketIds : OnClose(s) /\ Quiet
    \/ \E t \in pendingTimeouts : ReconnectFire(t) /\ Quiet
    \/ \E p \in activePings : PingFire(p) /\ Quiet
    \/ Disconnect /\ UNCHANGED <<tickVars, histVars, animVars, host>>
    \/ \E box \in Boxes : UpdateBBox(box) /\ Quiet
    \/ \E mots \in MotsChoices : SetTransportFilter(mots) /\ Quiet

SpecConn == Init /\ [][NextConn]_vars

(* ---------------- the significance test on its own -------------------- *)
OldBoxes == {BoxA, Box(0, 0, 20, 200), Box(5, 5, 5, 5), Box(10, 0, 0, 10)}
Deltas == (-MaxDelta)..MaxDelta

InitBBox ==
    /\ Constructed(<<"rail">>)
    /\ oldB \in OldBoxes
    /\ \E dl, db, dr, dt \in Deltas :
          newB = Box(oldB.left + dl, oldB.bottom + db, oldB.right + dr, oldB.top + dt)
    /\ changed = None
    /\ input = None /\ output = None

\* this.hasBBoxChangedEnough(oldB, newB)
Test ==
    /\ changed = None
    /\ changed' = Some(HasBBoxChangedEnough(oldB, newB))
    /\ UNCHANGED <<connVars, subVars, feedVars, oldB, newB, input, output>>

NextBBox == Test /\ Quiet

SpecBBox == InitBBox /\ [][NextBBox]_vars

(* ---------------- deletions and snapshots ------------------------------- *)
\* messages on an open connection, and update passes of the animation loop
NextSnap ==
    \/ \E s \in SocketIds : OnOpen(s) /\ Quiet
    \/ \E data \in Messages :
          /\ HandleMessage(data)
          /\ deletedIds' = DeletedAfter(deletedIds, Processed(data))
          /\ snapshot' = None
          /\ UNCHANGED <<onVehicleUpdate, lastCall, animVars, host, pendingFrames>>
    \/ \E now \in Times : UpdateVehiclePositions(now)
                           /\ UNCHANGED <<histVars, animVars, host, pendingFrames>>
    \/ OnUpdate /\ UNCHANGED <<histVars, animVars, host, pendingFrames>>
    \/ OnDelete /\ Quiet

SpecSnap == Init /\ [][NextSnap]_vars

(* ---------------- inbound messages, one at a time ----------------------- *)
\* every message the transport can deliver, with the long-distance flag
\* switched by the host; lastCall records the message
MsgInputs == Messages \cup {DeletedNullMsg}

NextMsg ==
    \/ \E s \in SocketIds : OnOpen(s) /\ lastCall' = NoCall
                            /\ UNCHANGED <<tickVars, deletedIds, animVars, host, pendingFrames>>
    \/ \E data \in MsgInputs :
          /\ HandleMessage(data)
          /\ lastCall' = Call("message", <<>>, FALSE, data)
          /\ UNCHANGED <<tickVars, deletedIds, animVars, host, pendingFrames>>
    \/ \E enabled \in BOOLEAN :
          /\ SetLongDistanceOnly(enabled)
          /\ lastCall' = Call("setLongDistanceOnly", <<>>, enabled, NullJson)
          /\ UNCHANGED <<tickVars, deletedIds, animVars, host, pendingFrames>>
    \/ OnDelete /\ lastCall' = NoCall /\ UNCHANGED <<tickVars, deletedIds, animVars, host, pendingFrames>>
    \/ OnTrajectory /\ lastCall' = NoCall /\ UNCHANGED <<tickVars, deletedIds, animVars, host, pendingFrames>>

SpecMsg == Init /\ [][NextMsg]_vars

(* ---------------- filter calls on a filled Store ------------------------ *)
\* allow-lists a caller can pass: the host's two lists, a permutation, a list
\* that names a mode twice, and a two-mode list
FilterMots ==
    { <<"rail">>, <<"rail", "bus", "tram">>, <<"tram", "rail", "bus">>,
      <<"rail", "rail">>, <<"rail", "bus">> }

NextFilter ==
    \/ \E s \in SocketIds : OnOpen(s) /\ lastCall' = NoCall
                            /\ UNCHANGED <<tickVars, deletedIds, animVars, host, pendingFrames>>
    \/ \E f \in GoodFeatures :
          /\ HandleMessage(TrajectoryMsg(Some(f)))
          /\ lastCall' = NoCall
          /\ UNCHANGED <<tickVars, deletedIds, animVars, host, pendingFrames>>
    \/ \E mots \in FilterMots :
          /\ SetTransportFilter(mots)
          /\ lastCall' = Call("setTransportFilter", mots, FALSE, NullJson)
          /\ UNCHANGED <<tickVars, deletedIds, animVars, host, pendingFrames>>
    \/ \E enabled \in BOOLEAN :
          /\ SetLongDistanceOnly(enabled)
          /\ lastCall' = Call("setLongDistanceOnly", <<>>, enabled, NullJson)
          /\ UNCHANGED <<tickVars, deletedIds, animVars, host, pendingFrames>>
    \/ OnDelete /\ lastCall' = NoCall /\ UNCHANGED <<tickVars, deletedIds, animVars, host, pendingFrames>>

SpecFilter == Init /\ [][NextFilter]_vars

(* ---------------- filter calls and the subscription --------------------- *)
\* the calls of the host's viewport handler (main.ts:229-246) on one connection
NextSub ==
    \/ \E s \in SocketIds : OnOpen(s) /\ lastCall' = NoCall
                            /\ UNCHANGED <<tickVars, deletedIds, animVars, host, pendingFrames>>
    \/ \E mots \in HostMots :
          /\ SetTransportFilter(mots)
          /\ lastCall' = Call("setTransportFilter", mots, FALSE, NullJson)
          /\ UNCHANGED <<tickVars, deletedIds, animVars, host, pendingFrames>>
    \/ \E enabled \in BOOLEAN :
          /\ SetLongDistanceOnly(enabled)
          /\ lastCall' = Call("setLongDistanceOnly", <<>>, enabled, NullJson)
          /\ UNCHANGED <<tickVars, deletedIds, animVars, host, pendingFrames>>
    \/ \E box \in Boxes :
          /\ UpdateBBox(box)
          /\ lastCall' = Call("updateBBox", <<>>, FALSE, NullJson)
          /\ UNCHANGED <<tickVars, deletedIds, animVars, host, pendingFrames>>

SpecSub == Init /\ [][NextSub]_vars

(* ---------------- the long-distance name test on its own --------------- *)
\* longest line name tried
MaxName == 3
\* letters of the prefixes in both cases, and characters outside them
NameChars == {"I", "i", "C", "c", "E", "e", "T", "t", "G", "V", "v", "R", "J",
              "X", "x", "N", "n", "S", "5"}
LineNames == UNION {[1..n -> NameChars] : n \in 0..MaxName}

InitName ==
    /\ Constructed(<<"rail">>)
    /\ oldB = NoInput /\ newB = NoInput /\ changed = None
    /\ input \in {None} \cup {Some(name) : name \in LineNames}
    /\ output = None

\* isLongDistanceTrain(input)
TestName ==
    /\ output = None
    /\ output' = Some(IsLongDistanceTrain(input))
    /\ UNCHANGED <<connVars, subVars, feedVars, oldB, newB, changed, input>>

NextName == TestName /\ Quiet

SpecName == InitName /\ [][NextName]_vars

(* ---------------- the interpolator on its own --------------------------- *)
\* longest interval sequence tried
MaxIntervals == 2
\* paths: one point, the straight two-point paths, a path with a corner
InterpPaths ==
    { << <<7, 3>> >>,
      << <<0, 0>>, <<10, 0>> >>,
      << <<10, 10>>, <<60, 60>> >>,
      << <<0, 0>>, <<10, 0>>, <<10, 20>> >> }
\* intervals [timestamp, fraction, rotation] with fractions in [0, 1]
IntervalChoices ==
    { <<t, f, r>> : t \in {1000, 2000}, f \in {RInt(0), Rat(1, 2), RInt(1)},
                    r \in {0, 90} }
\* interval sequences in chronological order, as the feed delivers them
IntervalLists ==
    { l \in UNION {[1..n -> IntervalChoices] : n \in 0..MaxIntervals} :
        \A i \in 1..(Len(l) - 1) : l[i][1] <= l[i + 1][1] }
\* Date.now(): far before, around and between the timestamps, far after
QueryTimes == {0, 999, 1000, 1250, 1500, 1750, 1999, 2000, 2001, 100000}

InitInterp ==
    /\ Constructed(<<"rail">>)
    /\ oldB = NoInput /\ newB = NoInput /\ changed = None
    /\ input \in [coords : InterpPaths, timeIntervals : IntervalLists, now : QueryTimes]
    /\ output = None

\* this.interpolatePosition(coords, timeIntervals, now)
TestInterp ==
    /\ output = None
    /\ output' = Some(InterpolatePosition(input.coords, input.timeIntervals, input.now))
    /\ UNCHANGED <<connVars, subVars, feedVars, oldB, newB, changed, input>>

NextInterp == TestInterp /\ Quiet

SpecInterp == InitInterp /\ [][NextInterp]_vars

(* ======================= animation interval =========================== *)

\* ANIMATION_CONFIG
VEHICLE_THRESHOLDS == <<100, 200, 300, 400>>
INTERVALS_MS == <<100, 150, 200, 300, 2000>>
FPS_UPDATE_INTERVAL == 1000

\* the largest vehicle count the interval is computed for
MaxCount == 450

\* faulty variant: a count equal to a threshold still gets the faster interval
GetAnimationIntervalInclusive(count) ==
    LET below == {i \in 1..Len(VEHICLE_THRESHOLDS) : count <= VEHICLE_THRESHOLDS[i]}
    IN IF below = {} THEN INTERVALS_MS[Len(INTERVALS_MS)]
       ELSE INTERVALS_MS[CHOOSE i \in below : \A j \in below : i <= j]

\* getAnimationInterval() for a Map of count trajectories: the interval of the
\* first threshold the count is below, the last interval when there is none
GetAnimationInterval(count) ==
    LET below == {i \in 1..Len(VEHICLE_THRESHOLDS) : count < VEHICLE_THRESHOLDS[i]}
    IN IF below = {} THEN INTERVALS_MS[Len(INTERVALS_MS)]
       ELSE INTERVALS_MS[CHOOSE i \in below : \A j \in below : i <= j]

\* SpecInterval: getAnimationInterval applied to every Map size up to MaxCount
InitInterval ==
    /\ Constructed(<<"rail">>)
    /\ oldB = NoInput /\ newB = NoInput /\ changed = None
    /\ input \in {Some(n) : n \in 0..MaxCount}
    /\ output = None

TestInterval ==
    /\ output = None
    /\ output' = Some(GetAnimationInterval(Get(input)))
    /\ UNCHANGED <<connVars, subVars, feedVars, oldB, newB, changed, input>>

NextInterval == TestInterval /\ Quiet

SpecInterval == InitInterval /\ [][NextInterval]_vars

(* ======================= animation loop =============================== *)

\* the number of frame ids requestAnimationFrame hands out
MaxFrames == 6

\* the time between two frame callbacks; timestamps never decrease
FrameSteps == {0, 50, 100, 1000}

\* onFps(callback)
OnFps ==
    /\ onFpsUpdate' = TRUE
    /\ events' = <<>> /\ lastBox' = None
    /\ UNCHANGED <<connVars, subVars, trajectories, onVehicleDelete,
                   onTrajectoryUpdate, testVars, lastUpdateTime, isAnimating,
                   lastFpsUpdateTime, frameCount, fpsCalculationStart, clock,
                   lastPass, tick, lastReport, passesSince, host>>

\* faulty variant: the interval of the smallest Store is used for every size
QualifiesFastest(timestamp) ==
    timestamp - lastUpdateTime >= INTERVALS_MS[1]

\* the test of the frame callback: the interval for the current Map size has
\* passed since lastUpdateTime
Qualifies(timestamp) ==
    timestamp - lastUpdateTime >= GetAnimationInterval(Len(trajectories))

\* the value of lastReport after an onFpsUpdate call at timestamp
Report(timestamp, before) ==
    [at |-> timestamp, count |-> IF before = None THEN 1 ELSE Get(before).count + 1]

\* faulty variant: the pass of this callback is not counted
FpsBeforeCount(timestamp, start) ==
    IF timestamp - start > 0 THEN Rat(frameCount * 1000, timestamp - start)
    ELSE RInt(0)

\* the fps value of the callback at timestamp, after frameCount++
Fps(timestamp, start) ==
    IF timestamp - start > 0 THEN Rat((frameCount + 1) * 1000, timestamp - start)
    ELSE RInt(0)

\* faulty variant: the next frame is requested although the callback threw
AbortedRearmed(f) ==
    /\ animationFrame' = f + 1
    /\ pendingFrames' = (pendingFrames \ {f}) \cup {f + 1}

\* the callback of frame f ends by an exception: its frame is used up and
\* requestAnimationFrame (part_000:186) is not reached
Aborted(f) ==
    /\ pendingFrames' = pendingFrames \ {f}
    /\ UNCHANGED animationFrame

\* the callback animate(timestamp) of the pending frame f; Date.now() is now.
\* One step is the whole callback: the interval test, the update pass with the
\* listener call, the FPS bookkeeping and the request of the next frame. When
\* the update pass throws, the callback ends there: isAnimating stays true and
\* no frame is requested.
Animate(f, dt, now) ==
    LET timestamp == clock + dt
        interval == GetAnimationInterval(Len(trajectories))
        next == f + 1
        start == IF fpsCalculationStart = 0 THEN timestamp ELSE fpsCalculationStart
        reports == timestamp - lastFpsUpdateTime >= FPS_UPDATE_INTERVAL
    IN /\ f \in pendingFrames
       /\ f < MaxFrames
       /\ clock' = timestamp
       /\ IF ~Qualifies(timestamp) \/ isAnimating
          THEN /\ animationFrame' = next
               /\ pendingFrames' = (pendingFrames \ {f}) \cup {next}
               /\ snapshot' = None
               /\ tick' = Tick(f, timestamp, FALSE, interval, None)
               /\ UNCHANGED <<lastUpdateTime, isAnimating, lastFpsUpdateTime,
                              frameCount, fpsCalculationStart, lastPass,
                              lastReport, passesSince>>
          ELSE IF UpdateThrows(now)
          THEN /\ isAnimating' = TRUE
               /\ Aborted(f)
               /\ snapshot' = None
               /\ tick' = Tick(f, timestamp, TRUE, interval, None)
               /\ lastPass' = Some([at |-> timestamp, size |-> Len(trajectories)])
               /\ UNCHANGED <<lastUpdateTime, lastFpsUpdateTime,
                              frameCount, fpsCalculationStart, lastReport,
                              passesSince>>
          ELSE /\ snapshot' = Published(now)
               /\ lastPass' = Some([at |-> timestamp, size |-> Len(trajectories)])
               /\ IF reports
                  THEN /\ tick' = Tick(f, timestamp, TRUE, interval,
                                       IF onFpsUpdate THEN Some(Fps(timestamp, start))
                                       ELSE None)
                       /\ lastFpsUpdateTime' = timestamp
                       /\ frameCount' = 0
                       /\ fpsCalculationStart' = timestamp
                  ELSE /\ tick' = Tick(f, timestamp, TRUE, interval, None)
                       /\ frameCount' = frameCount + 1
                       /\ fpsCalculationStart' = start
                       /\ UNCHANGED lastFpsUpdateTime
               /\ IF reports /\ onFpsUpdate
                  THEN /\ lastReport' = Some(Report(timestamp, lastReport))
                       /\ passesSince' = 0
                  ELSE /\ passesSince' = IF lastReport = None THEN 0
                                         ELSE passesSince + 1
                       /\ UNCHANGED lastReport
               /\ lastUpdateTime' = timestamp
               /\ isAnimating' = FALSE
               /\ animationFrame' = next
               /\ pendingFrames' = (pendingFrames \ {f}) \cup {next}
       /\ events' = <<>> /\ lastBox' = None
       /\ UNCHANGED <<sock, sent, ws, isConnected, reconnectTimeout, pingInterval,
                      pendingTimeouts, activePings, disconnectCalled, subVars,
                      trajectories, onVehicleDelete, onTrajectoryUpdate, testVars,
                      onVehicleUpdate, onFpsUpdate, histVars, host>>

\* SpecAnim: the animation loop over a Store that the feed fills with a fleet,
\* one buffer frame of fifty trajectories after the other, and single vehicles
FleetChunks == {<<1, 50>>, <<51, 100>>, <<101, 150>>}

FleetFeature(i) ==
    Feature(Some(ToString(i)), Some(<< <<10, 10>> >>), Some(Intervals2),
            Some(Line(LineS3, None)), Some("rail"), None, None, None)

FleetMsg(first, last) ==
    BufferMsg([i \in 1..(last - first + 1) |->
                  TrajectoryMsg(Some(FleetFeature(first + i - 1)))])

\* the feed sends the next part of the fleet, or reports the single vehicle V1
AnimMessages ==
    {FleetMsg(c[1], c[2]) : c \in {d \in FleetChunks : d[1] = Len(trajectories) + 1}}
        \cup (IF trajectories = <<>> THEN {}
              ELSE {TrajectoryMsg(Some(FeatV1Full)), DeletedMsg("V1")})

NextAnim ==
    \/ \E s \in SocketIds : OnOpen(s) /\ Quiet
    \/ \E data \in AnimMessages : HandleMessage(data) /\ Quiet
    \/ \E f \in 1..MaxFrames, dt \in FrameSteps : Animate(f, dt, 1500)

SpecAnim == Init /\ [][NextAnim]_vars

\* SpecTick: the animation loop with its listeners, a small Store and
\* disconnect()
TickSteps == {0, 100, 1000}

TickMessages ==
    {TrajectoryMsg(Some(FeatV1Full)), TrajectoryMsg(Some(FeatV1Bare)),
     TrajectoryMsg(Some(FeatV2Rail)), DeletedMsg("V1")}

\* an operation other than the frame callback hands no list to the listener
Silent ==
    /\ snapshot' = None
    /\ UNCHANGED <<onVehicleUpdate, histVars, animVars, host, pendingFrames>>

NextTick ==
    \/ \E s \in SocketIds : OnOpen(s) /\ Silent
    \/ \E data \in TickMessages : HandleMessage(data) /\ Silent
    \/ OnUpdate /\ UNCHANGED <<histVars, animVars, host, pendingFrames>>
    \/ OnFps /\ snapshot' = None
             /\ UNCHANGED <<onVehicleUpdate, histVars, pendingFrames>>
    \/ \E f \in 1..MaxFrames, dt \in TickSteps, now \in Times : Animate(f, dt, now)
    \/ Disconnect /\ snapshot' = None
                  /\ UNCHANGED <<onVehicleUpdate, histVars, animVars, host>>

SpecTick == Init /\ [][NextTick]_vars

(* ======================= transport errors ============================= *)

\* ws.onerror of socket s (part_000:101-103): the error is logged, nothing else
OnError(s) ==
    /\ Live(s)
    /\ events' = <<>> /\ lastBox' = None
    /\ UNCHANGED <<connVars, subVars, trajectories, onVehicleDelete,
                   onTrajectoryUpdate, testVars>>

\* the history lastCall names the event when it is an error event
ErrorEvent == Call("error", <<>>, FALSE, NullJson)
NotError ==
    /\ lastCall' = NoCall
    /\ UNCHANGED <<tickVars, deletedIds, animVars, host, pendingFrames>>

\* SpecErr: the connection lifecycle with error events
NextErr ==
    \/ \E s \in SocketIds : OnOpen(s) /\ NotError
    \/ \E s \in SocketIds :
          /\ OnError(s)
          /\ lastCall' = ErrorEvent
          /\ UNCHANGED <<tickVars, deletedIds, animVars, host, pendingFrames>>
    \/ \E s \in SocketIds : OnClose(s) /\ NotError
    \/ \E t \in pendingTimeouts : ReconnectFire(t) /\ NotError
    \/ \E p \in activePings : PingFire(p) /\ NotError
    \/ Disconnect /\ lastCall' = NoCall
                  /\ UNCHANGED <<tickVars, deletedIds, animVars, host>>

SpecErr == Init /\ [][NextErr]_vars

(* ======================= unusual trajectory data ====================== *)

\* V3 passes the validation of processTrajectory with a first interval whose
\* fraction is below 0
IntervalsOdd == << <<1000, RInt(-1), 0>>, <<2000, RInt(1), 0>> >>
FeatV3Odd ==
    Feature(Some("V3"), Some(<< <<10, 10>>, <<60, 60>> >>), Some(IntervalsOdd),
            Some(Line(LineS3, None)), Some("rail"), None, None, None)

HaltMessages ==
    {TrajectoryMsg(Some(FeatV1Full)), TrajectoryMsg(Some(FeatV3Odd)),
     DeletedMsg("V1")}

\* SpecHalt: the animation loop of SpecTick over a Store that may hold V3
NextHalt ==
    \/ \E s \in SocketIds : OnOpen(s) /\ Silent
    \/ \E data \in HaltMessages : HandleMessage(data) /\ Silent
    \/ OnUpdate /\ UNCHANGED <<histVars, animVars, host, pendingFrames>>
    \/ OnFps /\ snapshot' = None
             /\ UNCHANGED <<onVehicleUpdate, histVars, pendingFrames>>
    \/ \E f \in 1..MaxFrames, dt \in TickSteps, now \in Times : Animate(f, dt, now)
    \/ Disconnect /\ snapshot' = None
                  /\ UNCHANGED <<onVehicleUpdate, histVars, animVars, host>>

SpecHalt == Init /\ [][NextHalt]_vars

(* ======================= the host's viewport handler ================== *)

\* main.ts:77-78
MAX_AREA_FOR_BUSES == 15000
MAX_AREA_FOR_ALL_TRAINS == 50000

\* visible areas in km2, on and around the two limits
Areas == {0, 14999, 15000, 15001, 49999, 50000, 50001}

\* the if chain of main.ts:229-239
SelectFilter(areaKm2) ==
    IF areaKm2 > MAX_AREA_FOR_ALL_TRAINS
    THEN [mots |-> <<"rail">>, longDistanceOnly |-> TRUE]
    ELSE IF areaKm2 > MAX_AREA_FOR_BUSES
    THEN [mots |-> <<"rail">>, longDistanceOnly |-> FALSE]
    ELSE [mots |-> <<"rail", "bus", "tram">>, longDistanceOnly |-> FALSE]

\* the handler starts for an extent of areaKm2 with the web-mercator box and
\* makes its first call, apiService.setTransportFilter
ViewportChanged(areaKm2, box) ==
    /\ host.pc = "idle"
    /\ SetTransportFilter(SelectFilter(areaKm2).mots)
    /\ host' = [pc |-> "setLongDistanceOnly", area |-> areaKm2, box |-> box,
                calls |-> <<HostCall("setTransportFilter",
                                     SelectFilter(areaKm2).mots, FALSE, NoInput)>>,
                ids |-> Heard(host.ids, events')]
    /\ UNCHANGED <<tickVars, histVars, animVars, pendingFrames>>

\* its second call, apiService.setLongDistanceOnly
HostSetLongDistanceOnly ==
    /\ host.pc = "setLongDistanceOnly"
    /\ SetLongDistanceOnly(SelectFilter(host.area).longDistanceOnly)
    /\ host' = [host EXCEPT
                   !.pc = "updateBBox",
                   !.ids = Heard(@, events'),
                   !.calls = Append(@, HostCall("setLongDistanceOnly", <<>>,
                                                SelectFilter(host.area).longDistanceOnly,
                                                NoInput))]
    /\ UNCHANGED <<tickVars, histVars, animVars, pendingFrames>>

\* its last call, apiService.updateBBox (main.ts:241-246)
HostUpdateBBox ==
    /\ host.pc = "updateBBox"
    /\ UpdateBBox(host.box)
    /\ host' = [host EXCEPT
                   !.pc = "idle",
                   !.ids = Heard(@, events'),
                   !.calls = Append(@, HostCall("updateBBox", <<>>, FALSE, host.box))]
    /\ UNCHANGED <<tickVars, histVars, animVars, pendingFrames>>

\* the host's listeners take the events of the step
Listening ==
    /\ host' = [host EXCEPT !.ids = Heard(@, events')]
    /\ UNCHANGED <<tickVars, histVars, animVars, pendingFrames>>

\* SpecHost: the viewport handler, run to its end between the events of the
\* transport
NextHost ==
    \/ \E s \in SocketIds : host.pc = "idle" /\ OnOpen(s) /\ Listening
    \/ \E f \in GoodFeatures :
          host.pc = "idle" /\ HandleMessage(TrajectoryMsg(Some(f))) /\ Listening
    \/ \E areaKm2 \in Areas, box \in Boxes : ViewportChanged(areaKm2, box)
    \/ HostSetLongDistanceOnly
    \/ HostUpdateBBox

SpecHost == Init /\ [][NextHost]_vars

(* ======================= the host's view of the Store ================= *)

\* SpecEvents: the feed on one connection with a host that registers both
\* listeners before the transport delivers the first message
EventMessages ==
    {TrajectoryMsg(Some(f)) : f \in GoodFeatures}
    \cup {DeletedMsg(id) : id \in VehicleIds} \cup {DeletedNullMsg}
    \cup {BufferMsg(<<TrajectoryMsg(Some(FeatV1Full)), DeletedMsg("V1"),
                      TrajectoryMsg(Some(FeatV2Bus))>>),
          BufferMsg(<<TrajectoryMsg(Some(FeatV2Rail)), NullJson,
                      TrajectoryMsg(Some(FeatV1Full))>>)}

NextEvents ==
    \/ \E s \in SocketIds : OnOpen(s) /\ Listening
    \/ \E data \in EventMessages :
          /\ onVehicleDelete /\ onTrajectoryUpdate
          /\ HandleMessage(data)
          /\ Listening
    \/ \E box \in Boxes : UpdateBBox(box) /\ Listening
    \/ \E mots \in FilterMots : SetTransportFilter(mots) /\ Listening
    \/ \E enabled \in BOOLEAN : SetLongDistanceOnly(enabled) /\ Listening
    \/ OnDelete /\ Listening
    \/ OnTrajectory /\ Listening

SpecEvents == Init /\ [][NextEvents]_vars

(* ======================= the interval scan on its own ================= *)

\* interval sequences in any order of their timestamps, up to one interval
\* longer than those of SpecInterp
ScanIntervals == { <<t, RInt(0), 0>> : t \in {1000, 2000, 3000} }
ScanLists == UNION {[1..n -> ScanIntervals] : n \in 0..(MaxIntervals + 1)}
ScanTimes == {500, 1000, 1500, 2000, 2500, 3000, 3500}

InitScan ==
    /\ Constructed(<<"rail">>)
    /\ oldB = NoInput /\ newB = NoInput /\ changed = None
    /\ input \in [timeIntervals : ScanLists, now : ScanTimes]
    /\ output = None

\* this.findTimeIntervals(timeIntervals, now)
TestScan ==
    /\ output = None
    /\ output' = Some(FindTimeIntervals(input.timeIntervals, input.now))
    /\ UNCHANGED <<connVars, subVars, feedVars, oldB, newB, changed, input>>

NextScan == TestScan /\ Quiet

SpecScan == InitScan /\ [][NextScan]_vars

(* ======================= properties ==================================== *)

\* C1: after disconnect() has been called, in every later state no reconnect
\* timer is pending, no keepalive timer is active and no transport connection
\* is connecting or open (disconnect() closed the socket it held, so any live
\* socket is one opened afterwards).
C1_TeardownIsFinal ==
    disconnectCalled =>
        /\ pendingTimeouts = {}
        /\ activePings = {}
        /\ \A s \in SocketIds : ~Live(s)

\* C2: whenever a socket's close event fires and disconnect() has not been
\* called, the keepalive timer is stopped, the service is not connected and a
\* reconnect timer with the fixed delay is pending, for the first socket as for
\* every later one; and that timer goes away only by opening a new connection.
C2_CloseStep(s) == sock[s] # "CLOSED" /\ sock'[s] = "CLOSED"
C2_CloseReconnects ==
    [][ /\ \A s \in SocketIds :
             (C2_CloseStep(s) /\ ~disconnectCalled) =>
                 /\ isConnected' = FALSE
                 /\ pingInterval' = 0 /\ activePings' = {}
                 /\ reconnectTimeout' = s
                 /\ pendingTimeouts' = {[id |-> s, delay |-> RECONNECT_DELAY]}
        /\ (pendingTimeouts # {} /\ pendingTimeouts' = {} /\ ~disconnectCalled') =>
               \E s \in SocketIds :
                   sock[s] = "NONE" /\ sock'[s] = "CONNECTING" /\ ws' = s
      ]_vars
\* the second socket has closed too and its reconnect is pending
C2_Witness ==
    /\ ~disconnectCalled
    /\ sock[1] = "CLOSED" /\ sock[2] = "CLOSED"
    /\ pendingTimeouts = {[id |-> 2, delay |-> RECONNECT_DELAY]}
    /\ ~isConnected /\ activePings = {}

\* the frames sent by a step (a new socket starts with an empty log)
NewFrames ==
    IF Len(sent') > Len(sent) THEN SubSeq(sent', Len(sent) + 1, Len(sent')) ELSE <<>>
C3_OpenStep(s) == sock[s] = "CONNECTING" /\ sock'[s] = "OPEN"
\* what every open event does, whether or not a box is stored
C3_OnOpen ==
    \A s \in SocketIds :
        C3_OpenStep(s) =>
            /\ sent' = IF currentBBox # None
                       THEN << [kind |-> "BBOX", box |-> currentBBox, zoom |-> 9,
                                mots |-> IF currentMots = <<>> THEN None
                                         ELSE Some(currentMots), n |-> 0],
                               [kind |-> "BUFFER", box |-> None, zoom |-> 0,
                                mots |-> None, n |-> 100] >>
                       ELSE <<>>
            /\ pingInterval' # 0
            /\ [id |-> pingInterval', period |-> 30000] \in activePings'

\* C3 as stated: every open event sends BBOX then BUFFER 100 for the stored box
\* and mode list as the first frames of the connection, or nothing when no box
\* is stored, and starts a keepalive timer; while no box is stored nothing at
\* all is sent.
C3_AsStated ==
    [][ /\ C3_OnOpen
        /\ (currentBBox = None /\ currentBBox' = None) => NewFrames = <<>>
      ]_vars

\* C3 as amended: as above, except that while no box is stored no subscription
\* frame is sent; the keepalive's PING frames are.
C3_OpenSubscribes ==
    [][ /\ C3_OnOpen
        /\ (currentBBox = None /\ currentBBox' = None) =>
               \A i \in 1..Len(NewFrames) : NewFrames[i] = PingFrame
      ]_vars
\* a reconnected socket has opened with a box stored and sent the subscription
C3_Witness ==
    /\ ws = 2 /\ sock[2] = "OPEN" /\ currentBBox # None
    /\ Len(sent) = 2 /\ sent[1].kind = "BBOX" /\ sent[1].box = currentBBox
    /\ sent[2].kind = "BUFFER"
    /\ pingInterval = 2

\* a message event can be dispatched in this state
Deliverable == \E s \in SocketIds : sock[s] = "OPEN"
\* the type of feature f is present and not in the active allow-list
C4_ModeNotAllowed(f) ==
    /\ f.type # None
    /\ \A j \in 1..Len(currentMots) : currentMots[j] # Get(f.type)

\* C4: a trajectory message, single or inside a buffer, whose vehicle mode is
\* not in the active allow-list leaves the Store unchanged and emits no
\* trajectory-updated event.
C4_ModeFilterOnWrite ==
    Deliverable =>
        \A f \in GoodFeatures :
            C4_ModeNotAllowed(f) =>
                \A data \in {TrajectoryMsg(Some(f)), BufferMsg(<<TrajectoryMsg(Some(f))>>)} :
                    LET r == HandleMessageOn(Start, data)
                    IN r.traj = trajectories /\ r.ev = <<>>

\* the claims' own reading of "all four measures are below 5%", in twentieths
C5_Floor(n) == IF n > 1 THEN n ELSE 1
C5_AllBelowFivePercent(old, new) ==
    LET w == C5_Floor(old.right - old.left)
        h == C5_Floor(old.top - old.bottom)
    IN /\ 20 * Abs((new.right - new.left) - (old.right - old.left)) < w
       /\ 20 * Abs((new.top - new.bottom) - (old.top - old.bottom)) < h
       /\ 10 * Abs((new.left + new.right) - (old.left + old.right)) < w
       /\ 10 * Abs((new.bottom + new.top) - (old.bottom + old.top)) < h

\* C5: updateBBox with a box all of whose four measures are below 5% of the
\* stored box is a no-op: box, Store, filter state and connection state are
\* unchanged, no event is emitted and no frame is sent.
C5_InsignificantIsNoOp ==
    [][ ( /\ lastBox' # None
          /\ currentBBox # None
          /\ C5_AllBelowFivePercent(Get(currentBBox), Get(lastBox')) ) =>
            /\ UNCHANGED <<currentBBox, trajectories, currentMots, longDistanceOnly,
                           sent, connVars, onVehicleDelete, onTrajectoryUpdate>>
            /\ events' = <<>>
      ]_vars
\* updateBBox(BoxA2) was just called on a connected service holding BoxA and a
\* non-empty Store
C5_Witness ==
    /\ lastBox = Some(BoxA2) /\ currentBBox = Some(BoxA)
    /\ trajectories # <<>> /\ isConnected /\ ws # 0

\* the last coordinate of entry e is inside box b, its edges included
C7_Inside(e, b) ==
    LET p == e.coords[Len(e.coords)]
    IN b.left <= p[1] /\ p[1] <= b.right /\ b.bottom <= p[2] /\ p[2] <= b.top

\* C7: an accepted updateBBox (no box stored, or some measure at 5% or more)
\* stores the box, removes exactly the entries whose last coordinate is strictly
\* outside it, emits one deletion event per removed id, sends BBOX and BUFFER if
\* connected, and leaves every stored entry inside the stored box.
C7_AcceptedUpdate ==
    [][ ( /\ lastBox' # None
          /\ \/ currentBBox = None
             \/ ~C5_AllBelowFivePercent(Get(currentBBox), Get(lastBox')) ) =>
            LET b == Get(lastBox')
                removed == {trajectories[i].id :
                              i \in {j \in 1..Len(trajectories) :
                                       ~C7_Inside(trajectories[j], b)}}
            IN /\ currentBBox' = Some(b)
               /\ trajectories' = SelectSeq(trajectories, LAMBDA e : C7_Inside(e, b))
               /\ IF onVehicleDelete
                  THEN /\ Len(events') = Cardinality(removed)
                       /\ {events'[i] : i \in 1..Len(events')}
                            = {[kind |-> "delete", id |-> id, coords |-> <<>>,
                                type |-> None] : id \in removed}
                  ELSE events' = <<>>
               /\ NewFrames = IF ws # 0 /\ isConnected
                              THEN << [kind |-> "BBOX", box |-> Some(b), zoom |-> 9,
                                       mots |-> IF currentMots = <<>> THEN None
                                                ELSE Some(currentMots), n |-> 0],
                                      [kind |-> "BUFFER", box |-> None, zoom |-> 0,
                                       mots |-> None, n |-> 100] >>
                              ELSE <<>>
               /\ \A i \in 1..Len(trajectories') : C7_Inside(trajectories'[i], b)
      ]_vars
\* updateBBox(BoxB) was accepted while connected: V1 was evicted, V2 on the
\* left edge of BoxB was kept, and the subscription was sent
C7_Witness ==
    /\ lastBox = Some(BoxB) /\ currentBBox = Some(BoxB)
    /\ events = <<DeleteEvent("V1")>>
    /\ Len(trajectories) = 1 /\ trajectories[1].id = "V2"
    /\ trajectories[1].coords[Len(trajectories[1].coords)][1] = BoxB.left
    /\ isConnected /\ Len(sent) >= 2 /\ sent[Len(sent) - 1].box = Some(BoxB)

\* C6: the test answers "insignificant" exactly when all four measures are
\* strictly below 5%: a 4% resize with a centre shift of at most 4% is
\* insignificant, a 6% resize is significant, and exactly 5% in any one
\* measure is significant.
C6_Resized(pw, ph) == Box(0, 0, 100 + pw, 100 + ph)
C6_SignificanceTest ==
    changed # None =>
        /\ Get(changed) = ~C5_AllBelowFivePercent(oldB, newB)
        /\ (oldB = BoxA /\ newB \in {C6_Resized(4, 4), C6_Resized(-4, 4), Box(2, 2, 106, 106),
                                     Box(4, -4, 104, 96)})
              => Get(changed) = FALSE
        /\ (oldB = BoxA /\ newB \in {C6_Resized(6, 0), C6_Resized(0, -6), C6_Resized(6, 6)})
              => Get(changed) = TRUE
        /\ (oldB = BoxA /\ newB \in {C6_Resized(5, 0), C6_Resized(0, 5), Box(5, 0, 105, 100),
                                     Box(0, -5, 100, 95)})
              => Get(changed) = TRUE
\* the test has run on a box whose width grew by exactly 5% and nothing else
\* reached 5%
C6_Witness ==
    /\ oldB = BoxA /\ newB = C6_Resized(5, 0) /\ changed = Some(TRUE)

\* feature f passes validation and the long-distance filter
C8_Accepted(f) ==
    /\ f \in GoodFeatures
    /\ ~(longDistanceOnly /\ f.type = Some("rail") /\ ~IsLongDistanceTrain(LineName(f)))
\* the entry the message of feature f stands for, member by member
C8_EntryOf(f) ==
    [id |-> Get(f.train_id), coords |-> Get(f.coordinates),
     timeIntervals |-> Get(f.time_intervals),
     lineName |-> IF f.line = None THEN None ELSE Some(Get(f.line).name),
     lineColor |-> IF f.line = None THEN None ELSE Get(f.line).color,
     destination |-> f.destination, delay |-> f.delay, type |-> f.type,
     state |-> f.state]

\* C8: an accepted trajectory message for id leaves the Store holding exactly
\* the message's path, intervals and attributes under id (nothing of an earlier
\* entry survives), every other entry unchanged, and emits exactly one
\* trajectory-updated event (id, path, mode).
C8_WholesaleReplace ==
    Deliverable =>
        \A f \in {g \in GoodFeatures : C8_Accepted(g)} :
            LET r == HandleMessageOn(Start, TrajectoryMsg(Some(f)))
                id == Get(f.train_id)
            IN /\ Ids(r.traj) = Ids(trajectories) \cup {id}
               /\ Len(r.traj) = Cardinality(Ids(r.traj))
               /\ Entry(r.traj, id) = C8_EntryOf(f)
               /\ \A other \in Ids(trajectories) \ {id} :
                      Entry(r.traj, other) = Entry(trajectories, other)
               /\ r.ev = IF onTrajectoryUpdate
                         THEN << [kind |-> "trajectory", id |-> id,
                                  coords |-> Get(f.coordinates), type |-> f.type] >>
                         ELSE <<>>
\* the bare V1 message was just accepted (its event is the last handler's only
\* event), V1 holds none of the optional attributes, and V2 is still stored
C8_Witness ==
    /\ events = << TrajectoryEvent("V1", Get(FeatV1Bare.coordinates), None) >>
    /\ Has(trajectories, "V1") /\ Has(trajectories, "V2")
    /\ Entry(trajectories, "V1").delay = None
    /\ Entry(trajectories, "V1").lineName = None
    /\ trajectories[1].id = "V1"

\* each element of a buffer's list delivered as a top-level message of its own
RECURSIVE C9_DeliverEach(_, _)
C9_DeliverEach(st, items) ==
    IF items = <<>> THEN st
    ELSE C9_DeliverEach(HandleMessageOn(st, Head(items)), Tail(items))

\* C9: for every buffer content list, malformed and rejected elements
\* included, handling the buffer message yields the same Store and the same
\* sequence of events as delivering its elements one by one, in order.
C9_BufferIsSequence ==
    Deliverable =>
        \A items \in BufferLists :
            LET whole == HandleMessageOn(Start, BufferMsg(items))
                each == C9_DeliverEach(Start, items)
            IN whole.traj = each.traj /\ whole.ev = each.ev

\* C10: a deleted_vehicles message for id, single or inside a buffer, removes
\* id from the Store and emits a deletion event for id; every other entry is
\* left as it was, and when id is absent the Store is unchanged, so that the
\* same message a second time changes nothing in the Store.
C10_Delete ==
    Deliverable =>
        \A id \in VehicleIds :
            \A data \in {DeletedMsg(id), BufferMsg(<<DeletedMsg(id)>>)} :
                LET r == HandleMessageOn(Start, data)
                    again == HandleMessageOn([r EXCEPT !.ev = <<>>], data)
                IN /\ r.traj = SelectSeq(trajectories, LAMBDA e : e.id # id)
                   /\ (id \notin Ids(trajectories) => r.traj = trajectories)
                   /\ again.traj = r.traj
                   /\ r.ev = IF onVehicleDelete
                             THEN << [kind |-> "delete", id |-> id, coords |-> <<>>,
                                      type |-> None] >>
                             ELSE <<>>
\* V1 was just deleted and V2 is still stored
C10_Witness ==
    /\ events = << DeleteEvent("V1") >>
    /\ ~Has(trajectories, "V1") /\ Has(trajectories, "V2")

\* C11: once a deleted_vehicles message for an id has been handled, the deletion
\* listener (when registered) has been called with that id, and no snapshot that
\* a later update pass publishes contains the id, until a trajectory message
\* for the id is accepted.
C11_Published ==
    IF snapshot = None THEN {}
    ELSE {Get(snapshot)[i].id : i \in 1..Len(Get(snapshot))}
C11_Step ==
    /\ \A id \in VehicleIds :
          (id \in deletedIds' /\ id \notin deletedIds /\ onVehicleDelete)
             => \E i \in 1..Len(events') : events'[i] = DeleteEvent(id)
    /\ C11_Published' \cap deletedIds' = {}
C11_DeletedStaysGone == [][C11_Step]_vars
\* a snapshot has been published with V2 in it while V1 is deleted
C11_Witness ==
    /\ "V1" \in deletedIds
    /\ "V2" \in C11_Published

\* the step is the handling of message data
C12_Handles(data) == lastCall' = Call("message", <<>>, FALSE, data)
\* frames that are not JSON, parse to null, carry an unknown source, or carry
\* content their source cannot use
C12_Noise ==
    {NonJson, NullJson, OtherMsg, BufferNotArrayMsg, TrajectoryMsg(None),
     TrajectoryMsg(Some(FeatNoProperties)), TrajectoryMsg(Some(FeatNoGeometry)),
     DeletedNullMsg}
C12_Ignored(data) ==
    /\ trajectories' = trajectories
    /\ UNCHANGED <<subVars, connVars, tickVars>>
    /\ events' = <<>>
    /\ ~HandleMessageOn(Start, data).threw

\* C12: an inbound frame that is not valid JSON, or whose envelope has an
\* unknown source or unusable content, is ignored: Store, bounding box, filter
\* state and connection state are unchanged, no listener is invoked and no
\* error leaves the message handler.
C12_NoiseIgnored ==
    [][\A data \in C12_Noise : C12_Handles(data) => C12_Ignored(data)]_vars

\* feature f lacks the identifier, the time intervals or a non-empty path
C13_Missing(f) ==
    \/ f.train_id = None
    \/ f.time_intervals = None
    \/ f.coordinates = None
    \/ Get(f.coordinates) = <<>>

\* C13: a trajectory message that lacks the identifier, the time-interval
\* sequence or a non-empty coordinate path is dropped: the Store, including an
\* existing entry for that id, is unchanged and no trajectory-updated event is
\* emitted.
C13_MissingFieldDropped ==
    [][\A f \in GoodFeatures \cup BadFeatures :
          (C12_Handles(TrajectoryMsg(Some(f))) /\ C13_Missing(f))
             => (trajectories' = trajectories /\ events' = <<>>)]_vars
\* a message for V1 without time intervals was handled with the trajectory
\* listener registered and an entry for V1 in the Store
C13_Witness ==
    /\ lastCall = Call("message", <<>>, FALSE, TrajectoryMsg(Some(FeatNoIntervals)))
    /\ Has(trajectories, "V1")
    /\ onTrajectoryUpdate
    /\ events = <<>>

\* C14: while long-distance-only mode is active, a trajectory message of mode
\* rail whose line name fails the long-distance prefix test is dropped (Store
\* unchanged, existing entry kept, no event); a valid message of any other
\* mode, or of mode rail with a long-distance line name, is stored as usual.
C14_LongDistanceOnWrite ==
    [][\A f \in GoodFeatures :
          (longDistanceOnly /\ C12_Handles(TrajectoryMsg(Some(f))))
             => IF f.type = Some("rail") /\ ~IsLongDistanceTrain(LineName(f))
                THEN trajectories' = trajectories /\ events' = <<>>
                ELSE /\ Has(trajectories', Get(f.train_id))
                     /\ Entry(trajectories', Get(f.train_id)) = C8_EntryOf(f)
                     /\ onTrajectoryUpdate =>
                           events' = <<TrajectoryEvent(Get(f.train_id),
                                                       Get(f.coordinates), f.type)>>]_vars
\* in long-distance-only mode the rail S3 message for V2 was handled and the
\* bus entry of V2 is still stored
C14_Witness ==
    /\ longDistanceOnly
    /\ lastCall = Call("message", <<>>, FALSE, TrajectoryMsg(Some(FeatV2Rail)))
    /\ Has(trajectories, "V2")
    /\ Entry(trajectories, "V2").type = Some("bus")
    /\ onTrajectoryUpdate
    /\ events = <<>>

\* the set of modes a list denotes
C15_ModeSet(mots) == {mots[i] : i \in 1..Len(mots)}
\* the step is the call setTransportFilter(mots)
C15_Calls(mots) == lastCall' = Call("setTransportFilter", mots, FALSE, NullJson)

\* C15: setTransportFilter with any list that denotes the same set of modes as
\* the current allow-list removes nothing from the Store and emits no deletion
\* event, whatever the Store holds.
C15_SameSetKeepsAll ==
    [][\A mots \in FilterMots :
          (C15_Calls(mots) /\ C15_ModeSet(mots) = C15_ModeSet(currentMots))
             => (trajectories' = trajectories /\ events' = <<>>)]_vars

\* entry e has no mode or a mode outside the list mots
C16_Out(e, mots) == e.type = None \/ Get(e.type) \notin C15_ModeSet(mots)
\* events consists of one deletion event for each id of ids
C16_OneEventEach(ids) ==
    /\ Len(events') = Cardinality(ids)
    /\ \A id \in ids : \E i \in 1..Len(events') : events'[i] = DeleteEvent(id)

\* C16: setTransportFilter with a list whose set of modes differs from the
\* current allow-list removes exactly the trajectories whose mode is absent or
\* not in the new list, emits one deletion event per removed id, leaves the
\* other trajectories untouched, and afterwards every stored mode is in the
\* allow-list.
C16_DifferentSetEvicts ==
    [][\A mots \in FilterMots :
          (C15_Calls(mots) /\ C15_ModeSet(mots) # C15_ModeSet(currentMots))
             => /\ trajectories' = SelectSeq(trajectories, LAMBDA e : ~C16_Out(e, mots))
                /\ onVehicleDelete =>
                      C16_OneEventEach({trajectories[i].id :
                          i \in {j \in 1..Len(trajectories) :
                                   C16_Out(trajectories[j], mots)}})
                /\ \A i \in 1..Len(trajectories') :
                      ~C16_Out(trajectories'[i], currentMots')]_vars

\* the step is the call setLongDistanceOnly(enabled)
C19_Calls(enabled) == lastCall' = Call("setLongDistanceOnly", <<>>, enabled, NullJson)
\* entry e is of mode rail and its line name fails the long-distance prefix test
C19_Fails(e) == e.type = Some("rail") /\ ~IsLongDistanceTrain(e.lineName)

\* C19: setLongDistanceOnly(true) while the flag is false removes exactly the
\* rail trajectories whose line name fails the long-distance prefix test, with
\* one deletion event per removed id: rail IC5 survives, rail S3 is removed,
\* bus S3 survives.
C19_EnableEvicts ==
    [][(C19_Calls(TRUE) /\ ~longDistanceOnly)
          => /\ longDistanceOnly'
             /\ trajectories' = SelectSeq(trajectories, LAMBDA e : ~C19_Fails(e))
             /\ onVehicleDelete =>
                   C16_OneEventEach({trajectories[i].id :
                       i \in {j \in 1..Len(trajectories) : C19_Fails(trajectories[j])}})
             /\ \A i \in 1..Len(trajectories) :
                   LET e == trajectories[i]
                   IN /\ (e.type = Some("rail") /\ e.lineName = Some(LineIC5))
                           => Has(trajectories', e.id)
                      /\ (e.type = Some("rail") /\ e.lineName = Some(LineS3))
                           => ~Has(trajectories', e.id)
                      /\ (e.type = Some("bus") /\ e.lineName = Some(LineS3))
                           => Has(trajectories', e.id)]_vars
\* the filter was just enabled: rail S3 (V2) was removed and announced, rail
\* IC5 (V1) is still stored
C19_Witness ==
    /\ lastCall = Call("setLongDistanceOnly", <<>>, TRUE, NullJson)
    /\ longDistanceOnly
    /\ events = <<DeleteEvent("V2")>>
    /\ Has(trajectories, "V1")
    /\ Entry(trajectories, "V1").lineName = Some(LineIC5)

\* C20: setLongDistanceOnly(enabled) with enabled equal to the flag changes
\* nothing and emits nothing; setLongDistanceOnly(false) while the flag is true
\* changes only the flag: no trajectory is removed or put back, no event.
C20_NoOpAndDisable ==
    [][\A enabled \in BOOLEAN :
          C19_Calls(enabled) =>
             /\ enabled = longDistanceOnly
                   => /\ UNCHANGED <<trajectories, subVars, connVars, tickVars>>
                      /\ events' = <<>>
             /\ (~enabled /\ longDistanceOnly)
                   => /\ ~longDistanceOnly'
                      /\ UNCHANGED <<trajectories, currentMots, currentBBox,
                                     connVars, tickVars>>
                      /\ events' = <<>>]_vars
\* the filter was just switched off, or switched off again, over a Store that
\* holds a rail and a bus trajectory
C20_Witness ==
    /\ lastCall = Call("setLongDistanceOnly", <<>>, FALSE, NullJson)
    /\ ~longDistanceOnly
    /\ Len(trajectories) = 2
    /\ onVehicleDelete
    /\ events = <<>>

\* C17: setTransportFilter sends nothing on the transport and leaves the stored
\* bounding box and the long-distance flag as they are, whether or not the set
\* of modes changes.
C17_FilterFrame ==
    [][\A mots \in HostMots :
          C15_Calls(mots) =>
             /\ sent' = sent
             /\ currentBBox' = currentBBox
             /\ longDistanceOnly' = longDistanceOnly
             /\ currentMots' = mots]_vars
\* the filter was just changed on an open connection that has a subscription:
\* the last frame sent still carries the other list
C17_Witness ==
    /\ lastCall = Call("setTransportFilter", <<"rail">>, FALSE, NullJson)
    /\ isConnected /\ currentBBox # None
    /\ longDistanceOnly
    /\ sent = SubscribeFrames(ws, isConnected, currentBBox, <<"rail", "bus", "tram">>)

\* the last BBOX frame of a log of sent frames
C18_LastSubscription(log) ==
    LET at == {i \in 1..Len(log) : log[i].kind = "BBOX"}
    IN log[CHOOSE i \in at : \A j \in at : j <= i]
C18_Subscribed(log) == \E i \in 1..Len(log) : log[i].kind = "BBOX"

\* C18: on an open connection that has a subscription, after
\* setTransportFilter(modes) followed by updateBBox(box), for any box, the most
\* recent subscription command sent carries the mode list modes.
C18_FilterReachesSubscription ==
    [][( /\ lastCall.op = "setTransportFilter"
         /\ lastBox' # None
         /\ isConnected /\ ws # 0 /\ sock[ws] = "OPEN"
         /\ currentBBox # None /\ C18_Subscribed(sent) )
          => /\ C18_Subscribed(sent')
             /\ C18_LastSubscription(sent').mots = Some(lastCall.mots)]_vars

\* characters a and b are the same letter, whatever their case
C21_SameLetter(a, b) ==
    \/ a = b
    \/ \E k \in 1..26 : {a, b} = {LowerCase[k], UpperCase[k]}
\* name starts with prefix p when case is ignored
C21_StartsWithIgnoringCase(name, p) ==
    /\ Len(name) >= Len(p)
    /\ \A i \in 1..Len(p) : C21_SameLetter(name[i], p[i])
C21_Prefixes ==
    { <<"I","C">>, <<"I","C","E">>, <<"E","C">>, <<"T","G","V">>, <<"R","J","X">>,
      <<"N","J">>, <<"E","N">>, <<"I","R">> }

\* C21: the long-distance prefix test is true exactly when the line name is
\* present, not empty and starts, case ignored, with one of IC, ICE, EC, TGV,
\* RJX, NJ, EN, IR.
C21_PrefixTest ==
    output # None =>
        ( Get(output) <=> ( /\ input # None
                            /\ Get(input) # <<>>
                            /\ \E p \in C21_Prefixes :
                                  C21_StartsWithIgnoringCase(Get(input), p) ) )
\* the test has accepted a lower-case name
C21_Witness ==
    /\ input = Some(<<"t", "G", "v">>)
    /\ output = Some(TRUE)

\* the input is a straight two-point path with intervals (t0, 0, h), (t1, 1, h),
\* t0 < t1, queried at t0 <= now < t1
C22_Case ==
    /\ Len(input.coords) = 2
    /\ Len(input.timeIntervals) = 2
    /\ LET a == input.timeIntervals[1]
           b == input.timeIntervals[2]
       IN /\ a[1] < b[1] /\ a[2] = RInt(0) /\ b[2] = RInt(1) /\ a[3] = b[3]
          /\ a[1] <= input.now /\ input.now < b[1]
\* the fraction q equals c0 + (c1 - c0) * (now - t0) / (t1 - t0)
C22_Along(q, c0, c1) ==
    LET t0 == input.timeIntervals[1][1]
        t1 == input.timeIntervals[2][1]
    IN q.num * (t1 - t0) = q.den * (c0 * (t1 - t0) + (c1 - c0) * (input.now - t0))

\* C22: for intervals [(t0,0,h),(t1,1,h)], t0 < t1, and a straight two-point
\* path [p0,p1], a query at t0 <= now < t1 yields p0 + (p1-p0)*(now-t0)/(t1-t0);
\* path [[0,0],[10,0]] with intervals [[1000,0,0],[2000,1,0]] at 1500 gives (5, 0).
C22_LinearInTime ==
    (output # None /\ C22_Case) =>
        /\ Get(output).kind = "position"
        /\ C22_Along(Get(output).x, input.coords[1][1], input.coords[2][1])
        /\ C22_Along(Get(output).y, input.coords[1][2], input.coords[2][2])
\* the midpoint example of the claim
C22_Witness ==
    /\ input = [coords |-> << <<0, 0>>, <<10, 0>> >>,
                timeIntervals |-> << <<1000, RInt(0), 0>>, <<2000, RInt(1), 0>> >>,
                now |-> 1500]
    /\ output # None
    /\ Get(output).x = RInt(5) /\ Get(output).y = RInt(0)

\* the first interval has fraction 0 and the last has fraction 1
C23_Case ==
    /\ Len(input.timeIntervals) > 0
    /\ input.timeIntervals[1][2] = RInt(0)
    /\ input.timeIntervals[Len(input.timeIntervals)][2] = RInt(1)
C23_At(point, heading) ==
    /\ Get(output).kind = "position"
    /\ Get(output).x = RInt(point[1])
    /\ Get(output).y = RInt(point[2])
    /\ Get(output).rotation = RInt(heading)

\* C23: when the first interval has fraction 0 and the last has fraction 1, a
\* query before the first timestamp yields the first path point with the first
\* interval's heading, and a query at or after the last timestamp yields the
\* last path point with the last interval's heading, however far off.
C23_Clamped ==
    (output # None /\ C23_Case) =>
        LET first == input.timeIntervals[1]
            last == input.timeIntervals[Len(input.timeIntervals)]
        IN /\ input.now < first[1] => C23_At(input.coords[1], first[3])
           /\ input.now >= last[1] => C23_At(input.coords[Len(input.coords)], last[3])
\* the path with a corner, queried long after the last interval
C23_Witness ==
    /\ output # None /\ C23_Case
    /\ Len(input.coords) = 3
    /\ input.now = 100000
    /\ Get(output).x = RInt(10) /\ Get(output).y = RInt(20)
    /\ Get(output).rotation = RInt(90)

\* the point of the path at arc-fraction f: linear interpolation between the
\* two vertices that bracket f * (pathLength - 1)
C24_PointAt(coords, f) ==
    LET floatIdx == RMul(f, RInt(Len(coords) - 1))
        idx == RFloor(floatIdx)
        sub == RSub(floatIdx, RInt(idx))
    IN IF idx >= Len(coords) - 1
       THEN <<RInt(coords[Len(coords)][1]), RInt(coords[Len(coords)][2])>>
       ELSE <<RAdd(RInt(coords[idx + 1][1]),
                   RMul(RInt(coords[idx + 2][1] - coords[idx + 1][1]), sub)),
              RAdd(RInt(coords[idx + 1][2]),
                   RMul(RInt(coords[idx + 2][2] - coords[idx + 1][2]), sub))>>

\* C24: at or past the last interval's timestamp the position returned is the
\* point of the path at arc-fraction prev.fraction under the mapping used
\* between intervals, for every path and every last fraction in [0,1].
C24_FrozenOnPath ==
    (output # None /\ Len(input.timeIntervals) > 0) =>
        LET last == input.timeIntervals[Len(input.timeIntervals)]
        IN input.now >= last[1] =>
              /\ Get(output).kind = "position"
              /\ <<Get(output).x, Get(output).y>> = C24_PointAt(input.coords, last[2])

\* C25: for every non-empty path, every interval sequence with fractions in
\* [0,1] and every query time, the interpolator reads only path indices in
\* 0..pathLength-1 (a read outside them yields undefined, and taking [0] of it
\* raises a TypeError), a one-point path included.
C25_IndicesInBounds ==
    output # None => Get(output).kind # "throws"
\* two intervals that both stand at the end of a path with a corner, queried
\* between them: the index is the last vertex
C25_Witness ==
    /\ output # None
    /\ Get(output).kind = "position"
    /\ Len(input.coords) = 3
    /\ Len(input.timeIntervals) = 2
    /\ input.timeIntervals[1][2] = RInt(1) /\ input.timeIntervals[2][2] = RInt(1)
    /\ input.now = 1500

\* ---- C26 ----
\* the interval the frame callback waits between update passes is a step
\* function of the Store size n: 100 ms for n < 100, 150 ms for 100 <= n < 200,
\* 200 ms for 200 <= n < 300, 300 ms for 300 <= n < 400, 2000 ms from 400 on
C26_Step(n) ==
    IF n < 100 THEN 100
    ELSE IF n < 200 THEN 150
    ELSE IF n < 300 THEN 200
    ELSE IF n < 400 THEN 300
    ELSE 2000

C26_StepFunction ==
    (input # None /\ output # None) => Get(output) = C26_Step(Get(input))

\* the interval was computed for a Store of exactly 400 trajectories
C26_Witness == input = Some(400) /\ output = Some(2000)

\* ---- C27 ----
\* the step is a frame callback that made an update pass
C27_Pass == tick' # tick /\ tick'.pass

\* the time between the update pass of this step and the one before it
C27_Gap == tick'.at - Get(lastPass).at

\* C27: frame callbacks have non-decreasing timestamps, and an update pass
\* comes no sooner after the previous update pass than the interval selected
\* for the Store size at the later pass; with 150 vehicles in the Store the two
\* passes are at least 150 ms apart, so no 150 ms window holds two of them
C27_PassesSpaced ==
    [][ /\ clock' >= clock
        /\ (C27_Pass /\ lastPass # None) =>
              /\ C27_Gap >= GetAnimationInterval(Len(trajectories))
              /\ (Len(trajectories) = 150 => C27_Gap >= 150) ]_vars

\* two update passes were made since the last FPS report, the later one over a
\* Store of 150 vehicles
C27_Witness ==
    /\ tick.pass /\ frameCount >= 2
    /\ lastPass # None /\ Get(lastPass).size = 150 /\ Len(trajectories) = 150

\* ---- C28 ----
\* the stored trajectories that have at least one time interval, in Map order
C28_Timed == SelectSeq(trajectories, LAMBDA t : Len(t.timeIntervals) > 0)

\* C28: a list handed to the vehicle listener holds exactly one Vehicle for
\* every stored trajectory with at least one time interval, in Map order, and
\* nothing else (a trajectory with no interval is left out and no id outside
\* the Store appears); each Vehicle carries the id and the descriptive
\* attributes of its trajectory
C28_SnapshotComplete ==
    snapshot # None =>
        LET list == Get(snapshot)
        IN /\ Len(list) = Len(C28_Timed)
           /\ \A i \in 1..Len(list) :
                 /\ list[i].id = C28_Timed[i].id
                 /\ list[i].lineName = C28_Timed[i].lineName
                 /\ list[i].lineColor = C28_Timed[i].lineColor
                 /\ list[i].destination = C28_Timed[i].destination
                 /\ list[i].delay = C28_Timed[i].delay
                 /\ list[i].type = C28_Timed[i].type
                 /\ list[i].state = C28_Timed[i].state

\* a list of one Vehicle was handed over while the Store held two trajectories,
\* the first of them without a time interval
C28_Witness ==
    /\ snapshot # None /\ Len(Get(snapshot)) = 1
    /\ Len(trajectories) = 2 /\ Len(trajectories[1].timeIntervals) = 0

\* ---- C29 ----
\* the step is a frame callback
C29_Callback == tick' # tick

\* C29: a frame callback that makes an update pass calls the registered vehicle
\* listener once, with one list, when the Store is not empty, and does not call
\* it when the Store is empty; a frame callback that makes no update pass, and
\* every other operation, does not call it
C29_OncePerTick ==
    [][ /\ (C29_Callback /\ tick'.pass /\ onVehicleUpdate /\ Len(trajectories) > 0)
            => snapshot' # None
        /\ (C29_Callback /\ tick'.pass /\ Len(trajectories) = 0) => snapshot' = None
        /\ (C29_Callback /\ ~tick'.pass) => snapshot' = None
        /\ ~C29_Callback => snapshot' = None ]_vars

\* the latest frame callback made an update pass over a Store of two
\* trajectories and handed a list to the listener
C29_Witness ==
    /\ tick.pass /\ snapshot # None
    /\ Len(trajectories) = 2 /\ onVehicleUpdate

\* ---- C30 ----
\* C30: once disconnect() has been called no frame callback is pending, and no
\* later step is an animation tick: no frame callback runs, so there is no
\* update pass, no list for the vehicle listener and no FPS report
C30_StoppedAfterDisconnect ==
    [][ /\ disconnectCalled' => (pendingFrames' = {} /\ animationFrame' = 0)
        /\ disconnectCalled =>
              /\ tick' = tick /\ lastPass' = lastPass /\ clock' = clock
              /\ snapshot' = None ]_vars

\* disconnect() was called after a frame callback that made an update pass
\* and reported the FPS, with both listeners registered and a Store in use
C30_Witness ==
    /\ disconnectCalled /\ pendingFrames = {}
    /\ tick.pass /\ tick.fps # None
    /\ onVehicleUpdate /\ Len(trajectories) > 0

\* ---- C31 ----
\* C31: right after an error event of the transport the keepalive timer is
\* stopped, the service is not connected and a reconnect timer is pending, as
\* after a close event
C31_ErrorHandledLikeClose ==
    lastCall = ErrorEvent =>
        /\ pingInterval = 0 /\ activePings = {}
        /\ ~isConnected
        /\ pendingTimeouts # {}

\* ---- C32 ----
\* C32: until disconnect() is called every frame callback runs to its end and
\* requests the next frame: a frame callback is always pending and the busy
\* flag is clear between callbacks, whatever the Store holds
C32_LoopNeverHalts ==
    ~disconnectCalled => (pendingFrames # {} /\ ~isAnimating)

\* ---- C33 ----
\* the step is a frame callback that called the fps listener
C33_Reports == tick' # tick /\ tick'.fps # None

\* C33: a call of the fps listener comes at least 1000 ms after the previous
\* one, its value is the number of update passes completed since the previous
\* call divided by the seconds elapsed since then, and it leaves the tick
\* counter at 0 and the window start at the time of the call
C33_Windowed ==
    [][ C33_Reports =>
          /\ frameCount' = 0
          /\ fpsCalculationStart' = tick'.at
          /\ lastReport # None =>
                /\ tick'.at - Get(lastReport).at >= 1000
                /\ Get(tick'.fps) = Rat((passesSince + 1) * 1000,
                                        tick'.at - Get(lastReport).at) ]_vars

\* the fps listener has been called twice, the second time with a value
\* other than 0
C33_Witness ==
    /\ lastReport # None /\ Get(lastReport).count >= 2
    /\ tick.fps # None /\ Get(tick.fps) # RInt(0)
    /\ Get(lastReport).at = tick.at

\* ---- C34 ----
\* the filter the viewport handler is to select for a visible area
C34_Selected(areaKm2) ==
    IF areaKm2 < 15000 THEN [mots |-> <<"rail", "bus", "tram">>, longDistanceOnly |-> FALSE]
    ELSE IF areaKm2 <= 50000 THEN [mots |-> <<"rail">>, longDistanceOnly |-> FALSE]
    ELSE [mots |-> <<"rail">>, longDistanceOnly |-> TRUE]

\* C34: a finished run of the viewport handler has made three calls:
\* setTransportFilter with rail, bus and tram below 15,000 km2 and with rail
\* alone from 15,000 km2 on, setLongDistanceOnly with true above 50,000 km2
\* and false up to it, and then updateBBox with the extent it was started for
C34_ViewportSelectsFilter ==
    (host.pc = "idle" /\ host.calls # <<>>) =>
        host.calls =
            << HostCall("setTransportFilter", C34_Selected(host.area).mots, FALSE, NoInput),
               HostCall("setLongDistanceOnly", <<>>,
                        C34_Selected(host.area).longDistanceOnly, NoInput),
               HostCall("updateBBox", <<>>, FALSE, host.box) >>

\* ---- C35 ----
\* C35: with both listeners registered before the first message, the set a
\* host keeps by adding the id of every trajectory event and removing the id
\* of every deletion event is the key set of the Store in every state
C35_HostMirrorsStore == host.ids = Ids(trajectories)

\* the last call was an updateBBox that evicted a vehicle and told the host,
\* and the Store still holds another vehicle
C35_Witness ==
    /\ lastBox # None
    /\ \E i \in 1..Len(events) : events[i].kind = "delete"
    /\ host.ids # {} /\ host.ids = Ids(trajectories)

\* ---- C36 ----
\* the step sent at least one frame on the socket the service holds
C36_Sends == Len(sent') > Len(sent) /\ SubSeq(sent', 1, Len(sent)) = sent

\* the step is an accepted updateBBox made while the service is not connected
C36_OfflineBBox ==
    /\ lastBox' # None /\ currentBBox' = lastBox'
    /\ (ws = 0 \/ sock[ws] # "OPEN")

\* C36: a frame is sent only on a socket whose open event has fired and whose
\* close event has not, and never after disconnect(); an accepted updateBBox
\* made while not connected stores the box and sends nothing
C36_SentOnlyWhileConnected ==
    [][ /\ C36_Sends => (ws' # 0 /\ sock'[ws'] = "OPEN" /\ ~disconnectCalled')
        /\ C36_OfflineBBox => sent' = sent ]_vars

\* the same without the clause about disconnect()
C36_SentOnlyOnOpenSocket ==
    [][ /\ C36_Sends => (ws' # 0 /\ sock'[ws'] = "OPEN")
        /\ C36_OfflineBBox => sent' = sent ]_vars

\* ---- C37 ----
\* C37: while long-distance-only mode is on, every rail trajectory in the
\* Store has a line name that passes the long-distance prefix test
C37_OnlyLongDistanceRail ==
    longDistanceOnly =>
        \A i \in 1..Len(trajectories) :
            trajectories[i].type = Some("rail") =>
                IsLongDistanceTrain(trajectories[i].lineName)

\* the mode is on and the Store holds a long-distance rail trajectory beside a
\* trajectory of another mode
C37_Witness ==
    /\ longDistanceOnly /\ Len(trajectories) = 2
    /\ \E i \in 1..2 : trajectories[i].type = Some("rail")
    /\ \E i \in 1..2 : trajectories[i].type = Some("bus")

\* ---- C38 ----
\* a keepalive timer runs only while the socket the service holds is open
C38_PingOnlyWhileOpen ==
    activePings # {} => (ws # 0 /\ sock[ws] = "OPEN")

\* a reconnect timer is pending only while no socket is connecting or open
C38_TimerOnlyWhileDown ==
    pendingTimeouts # {} => \A s \in SocketIds : ~Live(s)

\* C38: at most one socket is connecting or open, at most one reconnect timer
\* is pending and at most one keepalive timer is active; a keepalive timer is
\* active only between an open event and the next close event or disconnect(),
\* a reconnect timer is pending only while no socket is live
C38_OneOfEach ==
    /\ Cardinality({s \in SocketIds : Live(s)}) <= 1
    /\ Cardinality(pendingTimeouts) <= 1
    /\ Cardinality(activePings) <= 1
    /\ C38_PingOnlyWhileOpen
    /\ C38_TimerOnlyWhileDown

\* a connection that was lost has been replaced: the second socket is open
\* with its keepalive timer, the first is closed
C38_Witness ==
    /\ sock[1] = "CLOSED" /\ sock[2] = "OPEN" /\ ws = 2
    /\ Cardinality(activePings) = 1 /\ pendingTimeouts = {}

\* ---- C39 ----
\* C39: when a frame callback starts the busy flag is clear, so no frame is
\* skipped for a pass in progress and no two update passes overlap; a callback
\* that makes no update pass is one at which less than the interval for the
\* current Store size has passed since the last update pass
C39_NeverBusyAtFrame ==
    [][ tick' # tick =>
          /\ ~isAnimating
          /\ ~tick'.pass =>
                tick'.at - lastUpdateTime < GetAnimationInterval(Len(trajectories)) ]_vars

\* a frame callback did no work after an earlier one had made an update pass
C39_Witness ==
    /\ ~tick.pass /\ tick.frame >= 2
    /\ lastPass # None /\ ~isAnimating

\* ---- C40 ----
\* the timestamps of the sequence never decrease
C40_Sorted(l) == \A i \in 1..(Len(l) - 1) : l[i][1] <= l[i + 1][1]

\* the positions of the intervals not later than now, and of the later ones
C40_Past(l, now) == {i \in 1..Len(l) : l[i][1] <= now}
C40_Future(l, now) == {i \in 1..Len(l) : l[i][1] > now}

\* C40: when the scan returns both a prev and a next interval, for a sorted or
\* an unsorted sequence, prev.timestamp <= now < next.timestamp, so the
\* denominator next.timestamp - prev.timestamp is positive and timeProgress is
\* in [0,1): the branch for a denominator <= 0 is not taken. For a sorted
\* sequence prev is the last interval with timestamp <= now and next the
\* first with timestamp > now
C40_ScanBrackets ==
    output # None =>
        LET l == input.timeIntervals
            now == input.now
            found == Get(output)
        IN /\ (found.prev # None /\ found.next # None) =>
                 LET prev == Get(found.prev)
                     next == Get(found.next)
                     timeDiff == next[1] - prev[1]
                 IN /\ prev[1] <= now /\ now < next[1]
                    /\ timeDiff > 0
                    /\ Rat(now - prev[1], timeDiff).num >= 0
                    /\ Rat(now - prev[1], timeDiff).num < Rat(now - prev[1], timeDiff).den
           /\ C40_Sorted(l) =>
                 /\ found.prev = IF C40_Past(l, now) = {} THEN None
                                 ELSE Some(l[CHOOSE i \in C40_Past(l, now) :
                                               \A j \in C40_Past(l, now) : j <= i])
                 /\ found.next = IF C40_Future(l, now) = {} THEN None
                                 ELSE Some(l[CHOOSE i \in C40_Future(l, now) :
                                               \A j \in C40_Future(l, now) : i <= j])

\* the scan of an unsorted sequence returned a prev and a next interval
C40_Witness ==
    /\ output # None
    /\ Get(output).prev # None /\ Get(output).next # None
    /\ ~C40_Sorted(input.timeIntervals)

====
